---------------------------- MODULE Spec2Model ----------------------------
(***************************************************************************)
(* Model of the aegistry screening pipeline: the scoring and ranking of    *)
(* crates/matching-core, and the monitoring engine (subscriptions, the     *)
(* re-scan of crates/ingest, the callback dispatcher of                    *)
(* crates/screening-api).                                                  *)
(*                                                                         *)
(* Conventions.                                                            *)
(*  - f32 scores are fixed-point integers in units of 1/Scale; a product   *)
(*    or quotient is truncated to that unit.                               *)
(*  - Option<T> is a sequence of length 0 (None) or 1 (Some).              *)
(*  - a normalized name is the list of its whitespace-separated tokens, a  *)
(*    token being a sequence of one-character strings.                     *)
(*  - SQLite statements and index reads succeed; the branches that only    *)
(*    log such an error are not taken.                                     *)
(***************************************************************************)
EXTENDS Integers, Sequences, FiniteSets, TLC

VARIABLES
    sc_in,      \* scoring block: the inputs of one candidate's scoring
    sc_out,     \* scoring block: << >> or <<the scored hit>>
    nm_in,      \* candidate scoring: query (tokens, country, year), candidate
    nm_out,     \* candidate scoring: << >> or <<the MatchResult>>
    pm_in,      \* parts match: input tokens, a permutation of them, subject
    pm_out,     \* parts match: << >> or <<the two scores>>
    se_in,      \* search_and_score: query, candidate list, max_results
    se_out,     \* search_and_score: << >> or <<the returned hit list>>
    store,      \* Subject Store: the subject rows of aegistry.db
    index,      \* index directory: None while it is missing, else <<the
                \* subjects of its last commit>>
    foreign_keys, \* SQLite enforces foreign keys on the API's connection
    monitored_subject,  \* table monitored_subject
    next_subject_id, \* AUTOINCREMENT sequence of monitored_subject
    monitoring_result,  \* table monitoring_result; the row id is the position
    now,        \* datetime('now') / Utc::now()
    engine,     \* AppState.engine is Some
    lock,       \* AppState.monitoring_db: None, or <<the handler holding it>>
    resp,       \* None, or <<the last response an API handler returned>>
    dpc,        \* callback loop: "absent", "tick", "send", "mark"
    notifications, \* callback loop: the rest of the sweep's pending list
    attempt,    \* callback loop: the attempt number of the next POST
    delivered,  \* the result rows whose callback POST was answered 2xx
    ipc,        \* refresh job: "idle", "upserted", "removed", "indexed"
    hs_in,      \* result hash: two hit lists
    hs_out,     \* result hash: << >> or <<their two hashes>>
    up_in,      \* upsert_subjects: the arguments (subjects, source)
    up_db,      \* upsert_subjects: tables subject and subject_alias
    up_out,     \* upsert_subjects: what each call returned
    bt_jobs,    \* batch: AppState.batch_jobs
    bt_tasks,   \* batch: the spawned process_batch tasks
    bt_resp,    \* batch: << >> or <<the last response of a batch handler>>
    pr_in,      \* roster parser: which parser, and the entries of the file
    pr_out,     \* roster parser: << >> or <<what the parser returned>>
    rt_in,      \* roster fetch: the source
    rt_run,     \* roster fetch: phase, attempt number, the requests made and
                \* the waits after them
    rt_out,     \* roster fetch: << >> or <<what the fetch returned>>
    rf_pc,      \* refresh run: the source being ingested, then "remove",
                \* "create", "build", "rescan", "done"
    rf_db,      \* refresh run: tables subject and subject_alias
    rf_index,   \* refresh run: the index directory, None while it is missing
    rf_subs,    \* refresh run: table monitored_subject
    rf_res,     \* refresh run: table monitoring_result
    rf_log,     \* refresh run: the outcome logged for each source so far
    rf_pre,     \* refresh run: the tables and the index when the run began
    rf_reads,   \* refresh run: what the screening queries made meanwhile read
    cn_in,      \* candidate retrieval: query tokens, indexed documents, limit
    cn_out,     \* candidate retrieval: << >> or <<candidates and hits>>
    cb_subs,    \* callback dispatch: table monitored_subject
    cb_res,     \* callback dispatch: table monitoring_result
    cb_now,     \* callback dispatch: Utc::now()
    cb_loop,    \* callback dispatch: where the loop is, the rest of its
                \* sweep, the attempt number, the payload of the entry
    cb_posts,   \* callback dispatch: the POSTs made and the sleep after each
    dv_pc,      \* source ingestion: the number of the next source
    dv_db,      \* source ingestion: tables subject and subject_alias
    dv_versions \* source ingestion: table dataset_version

scoreVars  == <<sc_in, sc_out>>
nameVars   == <<nm_in, nm_out>>
partsVars  == <<pm_in, pm_out>>
searchVars == <<se_in, se_out>>
dataVars   == <<store, index>>
tableVars  == <<foreign_keys, monitored_subject, next_subject_id,
               monitoring_result>>
apiVars    == <<engine, lock, resp>>
loopVars   == <<dpc, notifications, attempt, delivered>>
monVars    == <<dataVars, tableVars, now, apiVars, loopVars, ipc>>
vars == <<sc_in, sc_out, nm_in, nm_out, pm_in, pm_out, se_in, se_out,
          store, index, foreign_keys, monitored_subject, next_subject_id,
          monitoring_result, now,
          engine, lock, resp, dpc, notifications, attempt, delivered,
          ipc, hs_in, hs_out, up_in, up_db, up_out, bt_jobs, bt_tasks, bt_resp,
          pr_in, pr_out, rt_in, rt_run, rt_out,
          rf_pc, rf_db, rf_index, rf_subs, rf_res, rf_log, rf_pre, rf_reads,
          cn_in, cn_out, cb_subs, cb_res, cb_now, cb_loop, cb_posts,
          dv_pc, dv_db, dv_versions>>
hashVars   == <<hs_in, hs_out>>
upsertVars == <<up_in, up_db, up_out>>
batchVars  == <<bt_jobs, bt_tasks, bt_resp>>
parseVars  == <<pr_in, pr_out>>
retryVars  == <<rt_in, rt_run, rt_out>>
refreshVars == <<rf_pc, rf_db, rf_index, rf_subs, rf_res, rf_log, rf_pre,
                 rf_reads>>
retrievalVars == <<cn_in, cn_out>>
dispatchVars == <<cb_subs, cb_res, cb_now, cb_loop, cb_posts>>
versionVars == <<dv_pc, dv_db, dv_versions>>
auxVars    == <<hashVars, upsertVars, batchVars, parseVars, retryVars,
               refreshVars, retrievalVars, dispatchVars, versionVars>>
baseVars   == <<scoreVars, nameVars, partsVars, searchVars, monVars>>

----------------------------------------------------------------------------
(* Basic values *)

None == << >>
Some(x) == <<x>>
IsSome(o) == Len(o) = 1
Unwrap(o) == o[1]

Scale == 1000 * 1000

\* a decimal literal with two decimals, e.g. Pct(95) is 0.95
Pct(p) == (p * Scale) \div 100

Min(a, b) == IF a <= b THEN a ELSE b
Max(a, b) == IF a >= b THEN a ELSE b
Abs(x) == IF x < 0 THEN 0 - x ELSE x


----------------------------------------------------------------------------
(* strsim::jaro_winkler on token/character sequences *)

\* the first unflagged index of b inside the search window that equals ch, or 0
JaroFindMatch(ch, b, lo, hi, bFlags) ==
    LET cand == { j \in lo..hi : b[j] = ch /\ j \notin bFlags }
    IN  IF cand = {} THEN 0 ELSE CHOOSE j \in cand : \A k \in cand : j <= k

\* the matching loop: returns the flagged indices of a and of b
RECURSIVE JaroFlags(_, _, _, _, _, _)
JaroFlags(a, b, i, range, aFlags, bFlags) ==
    IF i > Len(a) THEN [a |-> aFlags, b |-> bFlags]
    ELSE LET lo == Max(1, i - range)
             hi == Min(Len(b), i + range)
             j  == JaroFindMatch(a[i], b, lo, hi, bFlags)
         IN  IF j = 0
             THEN JaroFlags(a, b, i + 1, range, aFlags, bFlags)
             ELSE JaroFlags(a, b, i + 1, range, aFlags \cup {i}, bFlags \cup {j})

\* the flagged characters of s, in order
RECURSIVE Flagged(_, _, _)
Flagged(s, flags, i) ==
    IF i > Len(s) THEN << >>
    ELSE IF i \in flags THEN <<s[i]>> \o Flagged(s, flags, i + 1)
                        ELSE Flagged(s, flags, i + 1)

jaro(a, b) ==
    IF Len(a) = 0 /\ Len(b) = 0 THEN Scale
    ELSE IF Len(a) = 0 \/ Len(b) = 0 THEN 0
    ELSE LET range == Max(0, (Max(Len(a), Len(b)) \div 2) - 1)
             f  == JaroFlags(a, b, 1, range, {}, {})
             m  == Cardinality(f.a)
             ma == Flagged(a, f.a, 1)
             mb == Flagged(b, f.b, 1)
             t  == Cardinality({ k \in 1..m : ma[k] # mb[k] }) \div 2
         IN  IF m = 0 THEN 0
             ELSE ( (m * Scale) \div Len(a) + (m * Scale) \div Len(b)
                    + ((m - t) * Scale) \div m ) \div 3

\* the length of the common prefix, counted over at most 4 characters
CommonPrefix(a, b) ==
    LET n == Min(4, Min(Len(a), Len(b)))
        same == { k \in 0..n : \A i \in 1..k : a[i] = b[i] }
    IN  CHOOSE k \in same : \A l \in same : l <= k

jaro_winkler(a, b) ==
    LET sim == jaro(a, b)
    IN  IF sim * 10 > 7 * Scale
        THEN Min(Scale, sim + (CommonPrefix(a, b) * (Scale - sim)) \div 10)
        ELSE sim

----------------------------------------------------------------------------
(* names *)

\* the normalized string of a token list: tokens joined by one space
RECURSIVE JoinTokens(_)
JoinTokens(parts) ==
    IF parts = << >> THEN << >>
    ELSE IF Len(parts) = 1 THEN parts[1]
    ELSE parts[1] \o <<" ">> \o JoinTokens(Tail(parts))

\* str::contains
Contains(hay, needle) ==
    \E k \in 1..(Len(hay) + 1) :
        /\ k + Len(needle) - 1 <= Len(hay)
        /\ SubSeq(hay, k, k + Len(needle) - 1) = needle

----------------------------------------------------------------------------
(* compute_parts_match_score: greedy assignment of input tokens to unused  *)
(* subject tokens                                                          *)

\* one iteration of the inner loop: a used part is skipped; a part replaces
\* the best only when strictly more similar (sim > best_match)
BetterOf(best, sim, idx) ==
    IF sim > best.sim THEN [sim |-> sim, idx |-> Some(idx)] ELSE best

BestStep(input_part, subject_parts, used, idx, best) ==
    IF idx \in used THEN best
    ELSE BetterOf(best, jaro_winkler(input_part, subject_parts[idx]), idx)

\* the inner loop: the best unused subject part for one input part
RECURSIVE BestMatch(_, _, _, _, _)
BestMatch(input_part, subject_parts, used, idx, best) ==
    IF idx > Len(subject_parts) THEN best
    ELSE BestMatch(input_part, subject_parts, used, idx + 1,
                   BestStep(input_part, subject_parts, used, idx, best))

FullMatchThreshold == Pct(90)
PartialMatchThreshold == Pct(80)

\* if let Some(idx) = best_idx { used_subject_parts[idx] = true; }
MarkUsed(used, best_idx) ==
    IF IsSome(best_idx) THEN used \cup {Unwrap(best_idx)} ELSE used

\* the credit of one input part given its best match
Credit(acc, best) ==
    IF best.sim >= FullMatchThreshold
    THEN [total |-> acc.total + best.sim,
          matched |-> acc.matched + 1, used |-> MarkUsed(acc.used, best.idx)]
    ELSE IF best.sim >= PartialMatchThreshold
    THEN [total |-> acc.total + (best.sim * 8) \div 10,
          matched |-> acc.matched + 1, used |-> MarkUsed(acc.used, best.idx)]
    ELSE acc

PartsStep(input_part, subject_parts, acc) ==
    Credit(acc, BestMatch(input_part, subject_parts, acc.used, 1,
                          [sim |-> 0, idx |-> None]))

\* the outer loop over the input parts, in their order
RECURSIVE PartsLoop(_, _, _, _)
PartsLoop(input_parts, subject_parts, k, acc) ==
    IF k > Len(input_parts) THEN acc
    ELSE PartsLoop(input_parts, subject_parts, k + 1,
                   PartsStep(input_parts[k], subject_parts, acc))

\* the result from the loop's totals
PartsResult(r, n_input) ==
    IF r.matched < n_input
    THEN Max((IF r.matched > 0 THEN r.total \div r.matched ELSE 0)
                 - (Scale * (n_input - r.matched)) \div 4, 0)
    ELSE r.total \div r.matched

compute_parts_match_score(input_parts, subject_parts) ==
    IF input_parts = << >> \/ subject_parts = << >> THEN 0
    ELSE PartsResult(PartsLoop(input_parts, subject_parts, 1,
                               [total |-> 0, matched |-> 0, used |-> {}]),
                     Len(input_parts))

----------------------------------------------------------------------------
(* compute_name_similarity *)

ContainmentBonus == Pct(5)

NameSimilarityUnclamped(input_parts, subject_parts) ==
    LET input   == JoinTokens(input_parts)
        subject == JoinTokens(subject_parts)
        parts_score == compute_parts_match_score(input_parts, subject_parts)
        containment_bonus == IF Contains(subject, input) THEN ContainmentBonus ELSE 0
        full_jw == jaro_winkler(input, subject)
    IN  IF parts_score >= Pct(90)
        THEN parts_score + containment_bonus
        ELSE IF parts_score >= Pct(70)
        THEN (7 * parts_score) \div 10 + (3 * full_jw) \div 10 + containment_bonus
        ELSE Min((full_jw * 85) \div 100, Pct(75))

\* (mutant of compute_name_similarity: the .min(1.0) clamps left out)
compute_name_similarity_unclamped(input_parts, subject_parts) ==
    NameSimilarityUnclamped(input_parts, subject_parts)

compute_name_similarity(input_parts, subject_parts) ==
    Min(NameSimilarityUnclamped(input_parts, subject_parts), Scale)

----------------------------------------------------------------------------
(* search_and_score: the components and the score of one candidate *)

\* eq_ignore_ascii_case on the country codes of the model
Upper(c) == CASE c = "iq" -> "IQ" [] c = "us" -> "US" [] OTHER -> c

CountryMatch(country, cand_country) ==
    IF IsSome(country) /\ IsSome(cand_country)
       /\ Upper(Unwrap(country)) = Upper(Unwrap(cand_country))
    THEN Scale ELSE 0

DobSimilarity(dob_year, cand_dob_year) ==
    IF IsSome(dob_year) /\ IsSome(cand_dob_year)
    THEN IF Unwrap(dob_year) = Unwrap(cand_dob_year) THEN Scale
         ELSE IF Abs(Unwrap(dob_year) - Unwrap(cand_dob_year)) <= 2 THEN Scale \div 2
         ELSE 0
    ELSE 0

WeightedScore(name_similarity, country_match, dob_similarity) ==
    (70 * name_similarity + 20 * country_match + 10 * dob_similarity) \div 100

\* (mutant of PerfectBoost: the boost given for a perfect name alone)
PerfectBoostNameOnly(score, name_similarity, country_match) ==
    IF name_similarity >= Pct(99) THEN Max(score, Pct(95)) ELSE score

\* boost: perfect name + country match reaches Hit level
PerfectBoost(score, name_similarity, country_match) ==
    IF name_similarity >= Pct(99) /\ country_match >= Scale
    THEN Max(score, Pct(95)) ELSE score

\* cap: country provided but not matching
CountryCap(score, country, name_similarity, country_match) ==
    IF IsSome(country) /\ country_match < Scale /\ name_similarity < Pct(99)
       /\ score > Pct(90)
    THEN Min(score, Pct(89)) ELSE score

\* (mutant of DobCap: no exemption for a perfect name + country match)
DobCapNoExemption(score, dob_year, name_similarity, country_match, dob_similarity) ==
    IF IsSome(dob_year) /\ dob_similarity < Scale /\ score > Pct(90)
    THEN Min(score, Pct(89)) ELSE score

\* cap: DOB provided but not matching
DobCap(score, dob_year, name_similarity, country_match, dob_similarity) ==
    IF IsSome(dob_year) /\ dob_similarity < Scale
       /\ (name_similarity < Pct(99) \/ country_match < Scale)
       /\ score > Pct(90)
    THEN Min(score, Pct(89)) ELSE score

\* lines 86-102: the weighted score, then the boost and the two caps in order
FinalScore(name_similarity, country_match, dob_similarity, country, dob_year) ==
    LET s0 == WeightedScore(name_similarity, country_match, dob_similarity)
        s1 == PerfectBoost(s0, name_similarity, country_match)
        s2 == CountryCap(s1, country, name_similarity, country_match)
        s3 == DobCap(s2, dob_year, name_similarity, country_match, dob_similarity)
    IN  s3

\* perform_screening: the risk band of a score
RiskLevel(score) ==
    IF score >= Pct(95) THEN "Hit"
    ELSE IF score >= Pct(90) THEN "Review"
    ELSE "None"

\* one candidate's MatchResult given its name similarity
ScoreWith(name_similarity, country, dob_year, cand) ==
    LET country_match  == CountryMatch(country, cand.country)
        dob_similarity == DobSimilarity(dob_year, cand.dob_year)
    IN  [ subject_id |-> cand.subject_id,
          name_similarity |-> name_similarity,
          country_match |-> country_match,
          dob_similarity |-> dob_similarity,
          score |-> FinalScore(name_similarity, country_match, dob_similarity,
                               country, dob_year) ]

\* the closure of search_and_score's map over the candidates
ScoreCandidate(input_parts, country, dob_year, cand) ==
    ScoreWith(compute_name_similarity(input_parts, cand.primary_name),
              country, dob_year, cand)

----------------------------------------------------------------------------
(* search_and_score: ranking *)

\* (mutant of CompareHits: a.score.partial_cmp(&b.score), ascending)
CompareHitsAscending(a, b) ==
    IF a.score < b.score THEN "Less"
    ELSE IF a.score > b.score THEN "Greater"
    ELSE "Equal"

\* the comparator of results.sort_by: b.score.partial_cmp(&a.score)
CompareHits(a, b) ==
    IF b.score < a.score THEN "Less"
    ELSE IF b.score > a.score THEN "Greater"
    ELSE "Equal"

\* slice::sort_by is a stable sort: x goes before the first element it is
\* Less than, after every element it is Equal to or Greater than
RECURSIVE InsertSorted(_, _)
InsertSorted(x, sorted) ==
    IF sorted = << >> THEN <<x>>
    ELSE IF CompareHits(x, Head(sorted)) = "Less" THEN <<x>> \o sorted
    ELSE <<Head(sorted)>> \o InsertSorted(x, Tail(sorted))

RECURSIVE SortByScore(_, _)
SortByScore(rest, sorted) ==
    IF rest = << >> THEN sorted
    ELSE SortByScore(Tail(rest), InsertSorted(Head(rest), sorted))

\* Vec::truncate
Truncate(results, max_results) ==
    SubSeq(results, 1, Min(Len(results), max_results))

\* search_and_score, from the candidates search_candidates returned
search_and_score(input_parts, country, dob_year, max_results, candidates) ==
    LET results == [ i \in 1..Len(candidates) |->
                       ScoreCandidate(input_parts, country, dob_year, candidates[i]) ]
    IN  Truncate(SortByScore(results, << >>), max_results)

----------------------------------------------------------------------------
(* Bounds and input sets of the pure-function specifications *)

MaxParts == 2       \* tokens in a query
GridSteps == 20     \* resolution of the name-similarity grid
MaxLimit == 2       \* largest max_results

maria == <<"m", "a", "r", "i", "a">>
marie == <<"m", "a", "r", "i", "e">>
marta == <<"m", "a", "r", "t", "a">>
anna  == <<"a", "n", "n", "a">>
Tokens == {maria, marie, marta, anna}

SeqsUpTo(S, n) == UNION { [1..k -> S] : k \in 0..n }

PermutationsOf(s) ==
    { [ i \in 1..Len(s) |-> s[f[i]] ] :
        f \in { g \in [1..Len(s) -> 1..Len(s)] :
                  \A i, j \in 1..Len(s) : i # j => g[i] # g[j] } }

QueryCountries == {None, Some("iq"), Some("US")}
QueryYears == {None, Some(1937), Some(1939), Some(1940)}

\* the subjects of the index
Corpus ==
    { [subject_id |-> "eu_1", primary_name |-> <<maria, marta>>,
       country |-> Some("IQ"), dob_year |-> Some(1937)],
      [subject_id |-> "un_2", primary_name |-> <<marie>>,
       country |-> None, dob_year |-> None],
      [subject_id |-> "uk_3", primary_name |-> <<maria>>,
       country |-> Some("US"), dob_year |-> Some(1937)],
      [subject_id |-> "eu_4", primary_name |-> <<anna, marie>>,
       country |-> Some("IQ"), dob_year |-> None] }

NameGrid ==
    { (k * Scale) \div GridSteps : k \in 0..GridSteps }
        \cup { Pct(99), Pct(99) - 1, Pct(93), Pct(92), Pct(90) }

ScoreIdle  == sc_in = << >> /\ sc_out = << >>
NameIdle   == nm_in = << >> /\ nm_out = << >>
PartsIdle  == pm_in = << >> /\ pm_out = << >>
SearchIdle == se_in = << >> /\ se_out = << >>
MonIdle ==
    /\ store = {} /\ index = << >> /\ foreign_keys = FALSE
    /\ monitored_subject = {} /\ next_subject_id = 1
    /\ monitoring_result = << >> /\ now = 0
    /\ engine = FALSE /\ lock = << >> /\ resp = << >>
    /\ dpc = "absent" /\ notifications = << >>
    /\ attempt = 1 /\ delivered = {} /\ ipc = "idle"
HashIdle   == hs_in = << >> /\ hs_out = << >>
UpsertIdle == up_in = << >> /\ up_db = << >> /\ up_out = << >>
BatchIdle  == bt_jobs = << >> /\ bt_tasks = << >> /\ bt_resp = << >>
ParseIdle  == pr_in = << >> /\ pr_out = << >>
RetryIdle  == rt_in = << >> /\ rt_run = << >> /\ rt_out = << >>
RefreshIdle ==
    /\ rf_pc = << >> /\ rf_db = << >> /\ rf_index = << >> /\ rf_subs = << >>
    /\ rf_res = << >> /\ rf_log = << >> /\ rf_pre = << >> /\ rf_reads = << >>
RetrievalIdle == cn_in = << >> /\ cn_out = << >>
DispatchIdle ==
    /\ cb_subs = << >> /\ cb_res = << >> /\ cb_now = << >>
    /\ cb_loop = << >> /\ cb_posts = << >>
VersionIdle == dv_pc = << >> /\ dv_db = << >> /\ dv_versions = << >>
AuxIdle ==
    /\ HashIdle /\ UpsertIdle /\ BatchIdle /\ ParseIdle /\ RetryIdle
    /\ RefreshIdle /\ RetrievalIdle /\ DispatchIdle /\ VersionIdle
BaseIdle   == ScoreIdle /\ NameIdle /\ PartsIdle /\ SearchIdle /\ MonIdle

----------------------------------------------------------------------------
(* ScoreSpec: the scoring block of search_and_score on a grid of name      *)
(* similarities                                                            *)

ScoreInit ==
    /\ sc_in \in { <<[name_similarity |-> n, country |-> c, dob_year |-> d, cand |-> k]>> :
                     n \in NameGrid, c \in QueryCountries, d \in QueryYears,
                     k \in Corpus }
    /\ sc_out = << >>
    /\ NameIdle /\ PartsIdle /\ SearchIdle /\ MonIdle /\ AuxIdle

ScoreHit ==
    /\ sc_out = << >>
    /\ LET q == sc_in[1]
           m == ScoreWith(q.name_similarity, q.country, q.dob_year, q.cand)
       IN  sc_out' = << [m EXCEPT !.subject_id = q.cand.subject_id] >>
    /\ UNCHANGED <<sc_in, nameVars, partsVars, searchVars, monVars, auxVars>>

ScoreNext == ScoreHit

ScoreSpec == ScoreInit /\ [][ScoreNext]_vars

----------------------------------------------------------------------------
(* NameSpec: one candidate scored from the query tokens *)

NameInit ==
    /\ nm_in \in { <<[input_parts |-> a, country |-> c, dob_year |-> d, cand |-> k]>> :
                     a \in SeqsUpTo(Tokens, MaxParts), c \in QueryCountries,
                     d \in QueryYears, k \in Corpus }
    /\ nm_out = << >>
    /\ ScoreIdle /\ PartsIdle /\ SearchIdle /\ MonIdle /\ AuxIdle

ScoreOne ==
    /\ nm_out = << >>
    /\ LET q == nm_in[1]
       IN  nm_out' = << ScoreCandidate(q.input_parts, q.country, q.dob_year, q.cand) >>
    /\ UNCHANGED <<nm_in, scoreVars, partsVars, searchVars, monVars, auxVars>>

NameNext == ScoreOne

NameSpec == NameInit /\ [][NameNext]_vars

----------------------------------------------------------------------------
(* PartsSpec: compute_parts_match_score on a token list and a permutation  *)
(* of it                                                                   *)

PartsInit ==
    /\ pm_in \in { <<[input_parts |-> a, permuted |-> p, subject_parts |-> b]>> :
                     a \in SeqsUpTo(Tokens, MaxParts),
                     p \in SeqsUpTo(Tokens, MaxParts),
                     b \in SeqsUpTo(Tokens, MaxParts) }
    /\ pm_in[1].permuted \in PermutationsOf(pm_in[1].input_parts)
    /\ pm_out = << >>
    /\ ScoreIdle /\ NameIdle /\ SearchIdle /\ MonIdle /\ AuxIdle

PartsMatch ==
    /\ pm_out = << >>
    /\ LET q == pm_in[1]
       IN  pm_out' = << [score |-> compute_parts_match_score(q.input_parts, q.subject_parts),
                         score_permuted |->
                             compute_parts_match_score(q.permuted, q.subject_parts)] >>
    /\ UNCHANGED <<pm_in, scoreVars, nameVars, searchVars, monVars, auxVars>>

PartsNext == PartsMatch

PartsSpec == PartsInit /\ [][PartsNext]_vars

----------------------------------------------------------------------------
(* SearchSpec: search_and_score on a candidate list, in the order the index *)
(* returned it                                                             *)

SearchQueries == { << >>, <<maria>>, <<maria, marta>>, <<anna, marie>> }

\* the lists search_candidates can return: distinct subjects (deduplicated
\* by subject_id), at most limit = max_results * 10 of them
CandidateLists(limit) ==
    { c \in SeqsUpTo(Corpus, Cardinality(Corpus)) :
        /\ Len(c) <= limit
        /\ \A i, j \in 1..Len(c) : i # j => c[i].subject_id # c[j].subject_id }

SearchInit ==
    /\ se_in \in { <<[input_parts |-> a, country |-> c, dob_year |-> d,
                      max_results |-> n, candidates |-> k]>> :
                     a \in SearchQueries, c \in {None, Some("iq")},
                     d \in {None, Some(1939)}, n \in 1..MaxLimit,
                     k \in CandidateLists(MaxLimit * 10) }
    /\ Len(se_in[1].candidates) <= se_in[1].max_results * 10
    /\ se_out = << >>
    /\ ScoreIdle /\ NameIdle /\ PartsIdle /\ MonIdle /\ AuxIdle

SearchAndScore ==
    /\ se_out = << >>
    /\ LET q == se_in[1]
       IN  se_out' = << search_and_score(q.input_parts, q.country, q.dob_year,
                                         q.max_results, q.candidates) >>
    /\ UNCHANGED <<se_in, scoreVars, nameVars, partsVars, monVars, auxVars>>

SearchNext == SearchAndScore

SearchSpec == SearchInit /\ [][SearchNext]_vars

----------------------------------------------------------------------------
(* The monitoring tables: crates/ingest/src/monitoring.rs.  A timestamp is  *)
(* a reading of the clock; rows that tie in an ORDER BY come out in rowid   *)
(* order.                                                                  *)

\* the tenant every API handler uses
DefaultTenant == "default"

\* a sort key <<column, rowid>> precedes another
KeyBefore(a, b) == a[1] < b[1] \/ (a[1] = b[1] /\ a[2] < b[2])

\* the sequence of the rows of S in ascending order of their sort keys
OrderedBy(S, key) ==
    CHOOSE q \in [1..Cardinality(S) -> S] :
        \A i, j \in 1..Cardinality(S) : i < j => KeyBefore(key[q[i]], key[q[j]])

\* the rows INSERT OR REPLACE deletes: those holding the UNIQUE pair
ReplacedRows(rows, tenant_id, reference_id) ==
    { s \in rows : s.tenant_id = tenant_id /\ s.reference_id = reference_id }

\* monitoring_result.subject_id REFERENCES monitored_subject(id)
Referenced(res, ids) ==
    \E i \in DOMAIN res : res[i].subject_id \in ids

\* INSERT OR REPLACE ... VALUES (.., 1): a new row under the next id; with
\* foreign keys enforced the statement fails when a deleted row has results
add_monitored_subject(rows, res, fk, id, tenant_id, req, at) ==
    LET old == ReplacedRows(rows, tenant_id, req.reference_id)
        row == [ id |-> id, tenant_id |-> tenant_id,
                 reference_id |-> req.reference_id, name |-> req.name,
                 country |-> req.country, dob_year |-> req.dob_year,
                 last_screened_at |-> at, last_result_hash |-> None,
                 callback_url |-> req.callback_url, active |-> TRUE ]
    IN  IF fk /\ Referenced(res, { s.id : s \in old })
        THEN [ ok |-> FALSE, rows |-> rows ]
        ELSE [ ok |-> TRUE, rows |-> (rows \ old) \cup {row} ]

\* (mutant of remove_monitored_subject: DELETE FROM monitored_subject)
remove_monitored_subject_hard(rows, tenant_id, reference_id) ==
    LET hit == ReplacedRows(rows, tenant_id, reference_id)
    IN  [ removed |-> hit # {}, rows |-> rows \ hit ]

\* UPDATE ... SET active = 0; Ok(rows > 0)
remove_monitored_subject(rows, tenant_id, reference_id) ==
    LET hit == ReplacedRows(rows, tenant_id, reference_id)
    IN  [ removed |-> hit # {},
          rows |-> (rows \ hit) \cup { [s EXCEPT !.active = FALSE] : s \in hit } ]

\* SELECT ... WHERE tenant_id = ?1 AND active = 1
get_monitored_subjects(rows, tenant_id) ==
    { s \in rows : s.tenant_id = tenant_id /\ s.active }

\* SELECT ... WHERE active = 1 ORDER BY last_screened_at ASC
get_all_active_subjects(rows) ==
    OrderedBy({ s \in rows : s.active },
              [ s \in rows |-> <<s.last_screened_at, s.id>> ])

\* INSERT INTO monitoring_result, then UPDATE monitored_subject WHERE id
record_monitoring_result(db, subject_id, result_hash, hit_count, highest_score, has_changes, at) ==
    [ res  |-> Append(db.res, [ subject_id |-> subject_id, screened_at |-> at,
                             result_hash |-> result_hash,
                             hit_count |-> hit_count,
                             highest_score |-> highest_score,
                             has_changes |-> has_changes,
                             notified |-> FALSE ]),
      rows |-> { IF s.id = subject_id
                 THEN [s EXCEPT !.last_screened_at = at,
                                !.last_result_hash = Some(result_hash)]
                 ELSE s : s \in db.rows } ]

\* the joined rows: [subject, result_id] with r.has_changes = 1 AND
\* r.notified = 0
PendingJoin(rows, res) ==
    { [subject |-> s, result_id |-> i] : s \in rows,
        i \in { k \in DOMAIN res : res[k].has_changes /\ ~res[k].notified } }

\* SELECT ... FROM monitored_subject s JOIN monitoring_result r
\* ON s.id = r.subject_id WHERE ... ORDER BY r.screened_at DESC
get_pending_notifications(rows, res) ==
    OrderedBy({ j \in PendingJoin(rows, res) :
                  j.subject.id = res[j.result_id].subject_id },
              [ j \in PendingJoin(rows, res) |->
                  <<0 - res[j.result_id].screened_at, j.result_id>> ])

\* UPDATE monitoring_result SET notified = 1 WHERE id = ?1
mark_notified(res, result_id) ==
    [ i \in DOMAIN res |->
        IF i = result_id THEN [res[i] EXCEPT !.notified = TRUE] ELSE res[i] ]

\* (mutant of Quantize: one decimal, (score * 10.0) as i32)
QuantizeOneDecimal(score) == (score * 10) \div Scale

\* (score * 100.0) as i32
Quantize(score) == (score * 100) \div Scale

\* the UTF-8 bytes of a subject id
Utf8(id) ==
    CASE id = "eu_1" -> <<101, 117, 95, 49>>
      [] id = "un_2" -> <<117, 110, 95, 50>>
      [] id = "uk_3" -> <<117, 107, 95, 51>>
      [] id = "eu_4" -> <<101, 117, 95, 52>>
      [] id = "eu_0001" -> <<101, 117, 95, 48, 48, 48, 49>>
      [] id = "ofac_0002" -> <<111, 102, 97, 99, 95, 48, 48, 48, 50>>
      [] id = "pep_eu_0003" -> <<112, 101, 112, 95, 101, 117, 95, 48, 48, 48, 51>>

\* i32::hash: the four bytes of the two's complement value, low byte first
I32Bytes(n) ==
    LET u == IF n < 0 THEN n + 65536 * 65536 ELSE n
    IN  << u % 256, (u \div 256) % 256, (u \div 65536) % 256,
           u \div (65536 * 256) >>

\* id.hash(&mut hasher): str writes its bytes and the terminator 0xff
StrBytes(id) == Utf8(id) \o <<255>>

\* the bytes the loop of compute_result_hash feeds the hasher
RECURSIVE HashStream(_)
HashStream(hits) ==
    IF hits = << >> THEN << >>
    ELSE StrBytes(Head(hits).subject_id) \o I32Bytes(Quantize(Head(hits).score))
           \o HashStream(Tail(hits))

\* hasher.finish() in hexadecimal: the SipHash digest of the bytes written,
\* which stands for them (digests of different byte strings are taken to
\* differ)
DefaultHasherFinish(bytes) == bytes

\* compute_result_hash
compute_result_hash(hits) == DefaultHasherFinish(HashStream(hits))

----------------------------------------------------------------------------
(* The two query paths of the monitoring engine *)

\* the characters of the tokens used that take two bytes in UTF-8: the
\* Cyrillic letters ya (U+044F) and en (U+043D)
TwoByteChars == {"U+044F", "U+043D"}

\* the token U+044F U+043D
yan == <<"U+044F", "U+043D">>

\* the subjects an index can hold: those of Corpus, one whose name is in
\* Cyrillic script and one with two short tokens
Documents ==
    Corpus \cup
    { [subject_id |-> "un_5", primary_name |-> <<yan>>,
       country |-> None, dob_year |-> None],
      [subject_id |-> "un_6", primary_name |-> <<<<"l", "i">>, <<"x", "i">>>>,
       country |-> None, dob_year |-> None] }

\* the subjects in ascending subject_id, the order the index returns
\* equally relevant documents in
CorpusOrder ==
    OrderedBy(Documents,
              [ c \in Documents |->
                  << CASE c.subject_id = "eu_1" -> 1 [] c.subject_id = "un_2" -> 2
                       [] c.subject_id = "uk_3" -> 3 [] c.subject_id = "eu_4" -> 4
                       [] c.subject_id = "un_5" -> 5 [] OTHER -> 6, 0 >> ])

\* str::len of a token: the number of bytes of its UTF-8 encoding
ByteLen(word) ==
    Len(word) + Cardinality({ i \in DOMAIN word : word[i] \in TwoByteChars })

\* FuzzyTermQuery::new(term, 1, true): Levenshtein distance <= 1, a
\* transposition of two adjacent characters counting as one edit
WithinOneEdit(a, b) ==
    \/ a = b
    \/ /\ Len(a) = Len(b)
       /\ \E i \in 1..Len(a) : \A k \in 1..Len(a) : k # i => a[k] = b[k]
    \/ /\ Len(a) = Len(b)
       /\ \E i \in 1..(Len(a) - 1) :
            /\ a[i] = b[i + 1] /\ a[i + 1] = b[i]
            /\ \A k \in 1..Len(a) : k \notin {i, i + 1} => a[k] = b[k]
    \/ \E i \in 1..Len(a) : b = SubSeq(a, 1, i - 1) \o SubSeq(a, i + 1, Len(a))
    \/ \E i \in 1..Len(b) : a = SubSeq(b, 1, i - 1) \o SubSeq(b, i + 1, Len(b))

\* search_candidates: the documents a Should clause matches, a clause being
\* built for each word of at least 3 characters; Err while the directory is
\* missing
search_candidates(idx, words, limit) ==
    IF idx = None THEN None
    ELSE Some(Truncate(SelectSeq(CorpusOrder, LAMBDA c :
                  /\ c \in Unwrap(idx)
                  /\ \E w \in DOMAIN words : \E t \in DOMAIN c.primary_name :
                       /\ ByteLen(words[w]) >= 3
                       /\ WithinOneEdit(words[w], c.primary_name[t])), limit))

\* MatchingEngine::search_and_score(name, country, dob_year, max_results):
\* an empty list when search_candidates fails
EngineScreening(idx, name, country, dob_year, max_results) ==
    LET candidates == search_candidates(idx, name, max_results * 10)
    IN  IF candidates = None THEN << >>
        ELSE search_and_score(name, country, dob_year, max_results,
                              Unwrap(candidates))

garcia == <<"g", "a", "r", "c", "i", "a">>
john   == <<"j", "o", "h", "n">>
doe    == <<"d", "o", "e">>
jean   == <<"j", "e", "a", "n">>
dupont == <<"d", "u", "p", "o", "n", "t">>

STUB_SUBJECTS ==
    << [subject_id |-> "eu_0001", name |-> <<maria, garcia>>,
        country |-> Some("ES"), year_of_birth |-> Some(1985)],
       [subject_id |-> "ofac_0002", name |-> <<john, doe>>,
        country |-> Some("US"), year_of_birth |-> Some(1970)],
       [subject_id |-> "pep_eu_0003", name |-> <<jean, dupont>>,
        country |-> Some("FR"), year_of_birth |-> None] >>

\* the score score_against_stub gives one stub subject
StubScore(name, country, dob_year, subject) ==
    LET name_similarity == jaro_winkler(JoinTokens(name), JoinTokens(subject.name))
        country_match ==
            IF IsSome(country) /\ IsSome(subject.country)
               /\ Upper(Unwrap(country)) = Upper(Unwrap(subject.country))
            THEN Scale ELSE 0
        dob_similarity ==
            IF IsSome(dob_year) /\ IsSome(subject.year_of_birth)
            THEN IF Unwrap(dob_year) = Unwrap(subject.year_of_birth) THEN Scale
                 ELSE IF Abs(Unwrap(dob_year) - Unwrap(subject.year_of_birth)) = 1
                      THEN Scale \div 2 ELSE 0
            ELSE 0
    IN  [ subject_id |-> subject.subject_id,
          name_similarity |-> name_similarity,
          country_match |-> country_match,
          dob_similarity |-> dob_similarity,
          score |-> (75 * name_similarity + 15 * country_match
                       + 10 * dob_similarity) \div 100 ]

score_against_stub(name, country, dob_year, max_results) ==
    LET scored == [ i \in 1..Len(STUB_SUBJECTS) |->
                      StubScore(name, country, dob_year, STUB_SUBJECTS[i]) ]
    IN  Truncate(SortByScore(scored, << >>), max_results)

\* perform_screening: the engine when there is one, else the stub
perform_screening(has_engine, idx, name, country, dob_year) ==
    IF has_engine THEN EngineScreening(idx, name, country, dob_year, 10)
    ELSE score_against_stub(name, country, dob_year, 5)

\* SearchIndex::search(query, limit): the QueryParser's query matches the
\* documents holding one of the query's terms
IndexSearch(committed, words, limit) ==
    Truncate(SelectSeq(CorpusOrder, LAMBDA c :
                 /\ c \in committed
                 /\ \E w \in DOMAIN words : \E t \in DOMAIN c.primary_name :
                      words[w] = c.primary_name[t]), limit)

\* the score re_screen_monitored_subjects gives every hit
SimplifiedScore == Pct(90)

\* the hit_data of re_screen_monitored_subjects
RescanHits(committed, words) ==
    LET search_hits == IndexSearch(committed, words, 10)
    IN  [ i \in 1..Len(search_hits) |->
            [ subject_id |-> search_hits[i].subject_id,
              score |-> SimplifiedScore ] ]

\* hits.first().map(|h| h.score).unwrap_or(0.0)
FirstScore(hits) == IF hits = << >> THEN 0 ELSE hits[1].score

----------------------------------------------------------------------------
(* Spec: the monitoring engine.  The API server (its handlers and its      *)
(* callback loop) and the refresh job are two processes on one aegistry.db; *)
(* the refresh job is the only writer of the database while it re-scans.    *)

MaxSubjectId == 2    \* monitored_subject ids handed out
MaxResultRows == 2   \* rows of monitoring_result
MaxTime == 1         \* readings of the clock

HookUrl == "https://hooks.example/aml"

\* the bodies of POST /v1/monitoring
AddRequests ==
    { [reference_id |-> "r1", name |-> <<maria>>, country |-> None,
       dob_year |-> None, callback_url |-> Some(HookUrl)],
      [reference_id |-> "r2", name |-> <<anna, marie>>, country |-> None,
       dob_year |-> None, callback_url |-> None] }

ReferenceIds == { r.reference_id : r \in AddRequests }

\* the upstream sources and the subjects each one publishes
Sources == {"eu", "uk"}
Roster(source) ==
    { c \in Corpus :
        c.subject_id \in ( CASE source = "eu" -> {"eu_1", "eu_4"}
                             [] source = "uk" -> {"uk_3"}
                             [] OTHER -> {} ) }

\* load_matching_engine: Some when the index directory can be opened
load_matching_engine(idx) == idx # None

\* the server starts on a fresh data directory or after a first refresh
MonInit ==
    /\ store \in { {}, Roster("eu") }
    /\ index = IF store = {} THEN None ELSE Some(store)
    /\ foreign_keys \in BOOLEAN
    /\ monitored_subject = {} /\ next_subject_id = 1
    /\ monitoring_result = << >> /\ now = 0
    /\ engine = load_matching_engine(index)
    /\ lock = None /\ resp = None
    /\ dpc = IF engine THEN "tick" ELSE "absent"
    /\ notifications = << >> /\ attempt = 1
    /\ delivered = {} /\ ipc = "idle"
    /\ ScoreIdle /\ NameIdle /\ PartsIdle /\ SearchIdle /\ AuxIdle

pureVars == <<scoreVars, nameVars, partsVars, searchVars, auxVars>>

Tick ==
    /\ now < MaxTime
    /\ now' = now + 1
    /\ UNCHANGED <<pureVars, dataVars, tableVars, apiVars, loopVars, ipc>>

\* tokio::sync::Mutex::lock().await completes when no guard is alive
CanLock(l) == l = None

\* record_monitoring_result as add_monitoring calls it, has_changes = false
RecordInitial(rows, res, reference_id, hits, at) ==
    LET found == { s \in get_monitored_subjects(rows, DefaultTenant) :
                     s.reference_id = reference_id }
    IN  IF found = {} THEN [res |-> res, rows |-> rows]
        ELSE record_monitoring_result([rows |-> rows, res |-> res],
                                      (CHOOSE s \in found : TRUE).id,
                                      compute_result_hash(hits), Len(hits),
                                      FirstScore(hits), FALSE, at)

\* POST /v1/monitoring: the first lock, the insert, the initial screening,
\* then the second lock, taken while the guard of the first is alive; when
\* it cannot be had the handler stays parked on it, holding the first
AddMonitoring(req) ==
    /\ CanLock(lock)
    /\ next_subject_id <= MaxSubjectId
    /\ LET guard == Some([handler |-> "add_monitoring",
                          reference_id |-> req.reference_id])
           ins == add_monitored_subject(monitored_subject, monitoring_result,
                      foreign_keys, next_subject_id, DefaultTenant, req, now)
           hits == perform_screening(engine, index, req.name, req.country,
                                     req.dob_year)
           rec == RecordInitial(ins.rows, monitoring_result,
                                req.reference_id, hits, now)
       IN  IF ~ins.ok
           THEN /\ resp' = Some([handler |-> "add_monitoring", status |-> 500])
                /\ UNCHANGED <<tableVars, lock>>
           ELSE /\ next_subject_id' = next_subject_id + 1
                /\ IF CanLock(guard)
                   THEN /\ monitored_subject' = rec.rows
                        /\ monitoring_result' = rec.res
                        /\ resp' = Some([handler |-> "add_monitoring",
                                         status |-> 200])
                        /\ UNCHANGED lock
                   ELSE /\ monitored_subject' = ins.rows
                        /\ lock' = guard
                        /\ UNCHANGED <<monitoring_result, resp>>
                /\ UNCHANGED foreign_keys
    /\ UNCHANGED <<pureVars, dataVars, now, engine, loopVars, ipc>>

\* DELETE /v1/monitoring/{reference_id}
RemoveMonitoring(reference_id) ==
    /\ CanLock(lock)
    /\ LET r == remove_monitored_subject(monitored_subject, DefaultTenant,
                                         reference_id)
       IN  /\ monitored_subject' = r.rows
           /\ resp' = Some([handler |-> "remove_monitoring",
                            status |-> IF r.removed THEN 200 ELSE 404])
    /\ UNCHANGED <<pureVars, dataVars, foreign_keys, next_subject_id,
                   monitoring_result, now, engine, lock, loopVars, ipc>>

\* the server process is stopped and main runs again
Restart ==
    /\ engine' = load_matching_engine(index)
    /\ lock' = None /\ resp' = None
    /\ dpc' = IF engine' THEN "tick" ELSE "absent"
    /\ notifications' = << >> /\ attempt' = 1
    /\ UNCHANGED <<pureVars, dataVars, tableVars, now, delivered, ipc>>

----------------------------------------------------------------------------
(* monitoring_callback_loop *)

\* the entries of the sweep the loop body acts on, with the fields it
\* reads: an entry whose subject has no callback_url is passed over without
\* effect
WithCallback(pending) ==
    LET kept == SelectSeq(pending, LAMBDA n : IsSome(n.subject.callback_url))
    IN  [ i \in 1..Len(kept) |->
            [ result_id |-> kept[i].result_id,
              reference_id |-> kept[i].subject.reference_id,
              callback_url |-> Unwrap(kept[i].subject.callback_url) ] ]

\* (mutant of IsSuccess: every response counts as delivered)
IsSuccessAlways(status) == TRUE

\* resp.status().is_success()
IsSuccess(status) == status = "2xx"

\* interval.tick(), lock, get_pending_notifications
SweepStart ==
    /\ dpc = "tick"
    /\ CanLock(lock)
    /\ LET pending == WithCallback(get_pending_notifications(
                          monitored_subject, monitoring_result))
       IN  /\ notifications' = pending
           /\ dpc' = IF pending = << >> THEN "tick" ELSE "send"
    /\ attempt' = 1
    /\ UNCHANGED <<pureVars, dataVars, tableVars, now, apiVars, delivered, ipc>>

\* the loop moves to the next entry of the sweep
NextEntry ==
    /\ notifications' = Tail(notifications)
    /\ attempt' = 1
    /\ dpc' = IF Tail(notifications) = << >> THEN "tick" ELSE "send"

\* one iteration of for attempt in 1..=3: the POST and its answer
SendCallback(status) ==
    /\ dpc = "send"
    /\ delivered' = IF status = "2xx"
                     THEN delivered \cup {Head(notifications).result_id}
                     ELSE delivered
    /\ IF IsSuccess(status)
       THEN dpc' = "mark" /\ UNCHANGED <<notifications, attempt>>
       ELSE IF attempt < 3
            THEN /\ attempt' = attempt + 1
                 /\ UNCHANGED <<dpc, notifications>>
            ELSE NextEntry
    /\ UNCHANGED <<pureVars, dataVars, tableVars, now, apiVars, ipc>>

\* if success: lock, mark_notified
MarkNotified ==
    /\ dpc = "mark"
    /\ CanLock(lock)
    /\ monitoring_result' = mark_notified(monitoring_result,
                                          Head(notifications).result_id)
    /\ NextEntry
    /\ UNCHANGED <<pureVars, dataVars, foreign_keys, monitored_subject,
                   next_subject_id, now, apiVars, delivered, ipc>>

----------------------------------------------------------------------------
(* The refresh job: crates/ingest/src/main.rs *)

\* the source adapters in turn: a source whose fetch fails is logged and
\* passed over, the others are upserted
IngestUpsert(loaded) ==
    /\ ipc = "idle"
    /\ store' = store \cup UNION { Roster(s) : s \in loaded }
    /\ ipc' = "upserted"
    /\ UNCHANGED <<pureVars, index, tableVars, now, apiVars, loopVars>>

\* std::fs::remove_dir_all(&index_path)
IngestRemoveIndex ==
    /\ ipc = "upserted"
    /\ index # None
    /\ index' = None
    /\ ipc' = "removed"
    /\ UNCHANGED <<pureVars, store, tableVars, now, apiVars, loopVars>>

\* SearchIndex::create, build_from_db and its commit
IngestBuildIndex ==
    /\ \/ ipc = "removed"
       \/ ipc = "upserted" /\ index = None
    /\ index' = Some(store)
    /\ ipc' = "indexed"
    /\ UNCHANGED <<pureVars, store, tableVars, now, apiVars, loopVars>>

\* (mutant of HasChanges: unwrap_or(false))
HasChangesUnlessNew(last_result_hash, new_hash) ==
    IF IsSome(last_result_hash) THEN Unwrap(last_result_hash) # new_hash
    ELSE FALSE

\* subject.last_result_hash.as_ref().map(|h| h != &new_hash).unwrap_or(true)
HasChanges(last_result_hash, new_hash) ==
    IF IsSome(last_result_hash) THEN Unwrap(last_result_hash) # new_hash
    ELSE TRUE

\* the body of the for loop of re_screen_monitored_subjects
RescanStep(subject, db, committed, at) ==
    LET hit_data == RescanHits(committed, subject.name)
        new_hash == compute_result_hash(hit_data)
        has_changes == HasChanges(subject.last_result_hash, new_hash)
    IN  record_monitoring_result(db, subject.id, new_hash,
                                 Len(hit_data), FirstScore(hit_data),
                                 has_changes, at)

RECURSIVE RescanLoop(_, _, _, _, _)
RescanLoop(subjects, k, db, committed, at) ==
    IF k > Len(subjects) THEN db
    ELSE RescanLoop(subjects, k + 1,
                    RescanStep(subjects[k], db, committed, at), committed, at)

\* re_screen_monitored_subjects
IngestRescan ==
    /\ ipc = "indexed"
    /\ LET subjects == get_all_active_subjects(monitored_subject)
           db == RescanLoop(subjects, 1,
                            [rows |-> monitored_subject,
                             res |-> monitoring_result], Unwrap(index), now)
       IN  /\ Len(monitoring_result) + Len(subjects) <= MaxResultRows
           /\ monitored_subject' = db.rows
           /\ monitoring_result' = db.res
    /\ ipc' = "idle"
    /\ UNCHANGED <<pureVars, dataVars, foreign_keys, next_subject_id, now,
                   apiVars, loopVars>>

Next ==
    \/ Tick
    \/ \E req \in AddRequests : AddMonitoring(req)
    \/ \E reference_id \in ReferenceIds : RemoveMonitoring(reference_id)
    \/ Restart
    \/ SweepStart
    \/ \E status \in {"2xx", "5xx"} : SendCallback(status)
    \/ MarkNotified
    \/ \E loaded \in SUBSET Sources : IngestUpsert(loaded)
    \/ IngestRemoveIndex
    \/ IngestBuildIndex
    \/ IngestRescan

Spec == MonInit /\ [][Next]_vars

----------------------------------------------------------------------------
(* LiveSpec: the server stays up.  It was started after a first refresh,   *)
(* on a database that already holds the subscription r1 of an earlier run;  *)
(* the callback loop is one task that the runtime keeps scheduling, and an  *)
(* endpoint that is POSTed to again and again answers 2xx at some time.     *)

EarlierSubscription ==
    [ id |-> 1, tenant_id |-> DefaultTenant, reference_id |-> "r1",
      name |-> <<maria>>, country |-> None, dob_year |-> None,
      last_screened_at |-> 0, last_result_hash |-> None,
      callback_url |-> Some(HookUrl), active |-> TRUE ]

LiveInit ==
    /\ store = Roster("eu") /\ index = Some(store)
    /\ foreign_keys \in BOOLEAN
    /\ monitored_subject = {EarlierSubscription} /\ next_subject_id = 2
    /\ monitoring_result = << >> /\ now = 0
    /\ engine = load_matching_engine(index)
    /\ lock = None /\ resp = None
    /\ dpc = "tick" /\ notifications = << >> /\ attempt = 1
    /\ delivered = {} /\ ipc = "idle"
    /\ ScoreIdle /\ NameIdle /\ PartsIdle /\ SearchIdle /\ AuxIdle

LiveNext ==
    \/ Tick
    \/ \E req \in AddRequests : AddMonitoring(req)
    \/ \E reference_id \in ReferenceIds : RemoveMonitoring(reference_id)
    \/ SweepStart
    \/ \E status \in {"2xx", "5xx"} : SendCallback(status)
    \/ MarkNotified
    \/ \E loaded \in SUBSET Sources : IngestUpsert(loaded)
    \/ IngestRemoveIndex
    \/ IngestBuildIndex
    \/ IngestRescan

LiveSpec ==
    /\ LiveInit
    /\ [][LiveNext]_vars
    /\ WF_vars(SweepStart)
    /\ WF_vars(\E status \in {"2xx", "5xx"} : SendCallback(status))
    /\ SF_vars(SendCallback("2xx"))
    /\ WF_vars(MarkNotified)

----------------------------------------------------------------------------
(* HashSpec: compute_result_hash on two hit lists *)

MaxHits == 2    \* hits in a list

\* scores around the second decimal: 0.899999, 0.90, 0.904, 0.91
HashScores == { Pct(90) - 1, Pct(90), Pct(90) + 4000, Pct(91) }

HashHitLists ==
    SeqsUpTo({ [subject_id |-> id, score |-> sc] :
                 id \in {"eu_1", "un_2"}, sc \in HashScores }, MaxHits)

HashInit ==
    /\ hs_in \in { <<[first |-> a, second |-> b]>> :
                     a \in HashHitLists, b \in HashHitLists }
    /\ hs_out = << >>
    /\ BaseIdle /\ UpsertIdle /\ BatchIdle /\ ParseIdle /\ RetryIdle
    /\ RefreshIdle /\ RetrievalIdle /\ DispatchIdle /\ VersionIdle

HashBoth ==
    /\ hs_out = << >>
    /\ hs_out' = << [first |-> compute_result_hash(hs_in[1].first),
                     second |-> compute_result_hash(hs_in[1].second)] >>
    /\ UNCHANGED <<hs_in, baseVars, upsertVars, batchVars, parseVars, retryVars,
                   refreshVars, retrievalVars, dispatchVars, versionVars>>

HashNext == HashBoth

HashSpec == HashInit /\ [][HashNext]_vars

----------------------------------------------------------------------------
(* UpsertSpec: upsert_subjects on the subject and subject_alias tables *)

\* str::to_lowercase on the source labels used
ToLowercase(s) ==
    CASE s = "EU" -> "eu" [] s = "UN" -> "un" [] s = "UK" -> "uk"
      [] s = "CANADA" -> "canada" [] s = "PEP_AT" -> "pep_at"
      [] s = "PEP_EU_PARLIAMENT" -> "pep_eu_parliament" [] OTHER -> s

\* format!("{}_{}", source.to_lowercase(), subject.source_ref)
SubjectId(source, source_ref) == ToLowercase(source) \o "_" \o source_ref

\* SELECT 1 FROM subject WHERE id = ?1
SubjectExists(db, id) == \E r \in db.subject : r.id = id

\* UPDATE subject SET primary_name, date_of_birth, date_of_birth_year,
\* country, updated_at WHERE id = ?1
UpdateSubject(db, id, subject, at) ==
    [db EXCEPT !.subject =
        { IF r.id = id
            THEN [r EXCEPT !.primary_name = subject.primary_name,
                           !.date_of_birth_year = subject.date_of_birth_year,
                           !.country = subject.country,
                           !.updated_at = at]
            ELSE r : r \in db.subject }]

\* INSERT INTO subject (...): created_at and updated_at take their default
InsertSubject(db, id, subject, source, at) ==
    [db EXCEPT !.subject = @ \cup
        { [id |-> id, kind |-> subject.kind,
           primary_name |-> subject.primary_name,
           date_of_birth_year |-> subject.date_of_birth_year,
           country |-> subject.country, source |-> source,
           source_ref |-> subject.source_ref,
           created_at |-> at, updated_at |-> at] }]

\* DELETE FROM subject_alias WHERE subject_id = ?1
DeleteAliases(db, id) ==
    [db EXCEPT !.alias = { a \in @ : a.subject_id # id }]

\* INSERT OR IGNORE INTO subject_alias: UNIQUE(subject_id, name, alias_type),
\* id INTEGER PRIMARY KEY AUTOINCREMENT
InsertOrIgnoreAlias(db, id, alias) ==
    IF \E a \in db.alias : /\ a.subject_id = id /\ a.name = alias.name
                           /\ a.alias_type = alias.alias_type
    THEN db
    ELSE [db EXCEPT !.alias = @ \cup { [id |-> db.seq + 1, subject_id |-> id,
                                        name |-> alias.name,
                                        alias_type |-> alias.alias_type] },
                    !.seq = @ + 1]

\* the loop over subject.aliases; the statement of alias number fail_at
\* fails (0: none) and `?` leaves the function
RECURSIVE AliasLoop(_, _, _, _, _)
AliasLoop(db, id, aliases, k, fail_at) ==
    IF k > Len(aliases) THEN [ok |-> TRUE, db |-> db]
    ELSE IF k = fail_at THEN [ok |-> FALSE, db |-> db]
    ELSE AliasLoop(InsertOrIgnoreAlias(db, id, aliases[k]), id, aliases,
                   k + 1, fail_at)

\* the row statement of one loop iteration. Statement 1 is the SELECT, whose
\* error is read as "absent"; statement 2 the UPDATE or INSERT (an INSERT of a
\* present id fails on the primary key)
WriteRow(db, id, subject, source, at, fail_at) ==
    LET exists == IF fail_at = 1 THEN FALSE ELSE SubjectExists(db, id)
    IN  IF fail_at = 2 \/ (~exists /\ SubjectExists(db, id))
        THEN [ok |-> FALSE, db |-> db, inserted |-> 0, updated |-> 0]
        ELSE IF exists
        THEN [ok |-> TRUE, db |-> UpdateSubject(db, id, subject, at),
              inserted |-> 0, updated |-> 1]
        ELSE [ok |-> TRUE, db |-> InsertSubject(db, id, subject, source, at),
              inserted |-> 1, updated |-> 0]

\* the alias replacement of one loop iteration: statement 3 is the DELETE,
\* statement 3 + j the insert of alias j
ReplaceAliases(db, id, aliases, fail_at) ==
    IF fail_at = 3 THEN [ok |-> FALSE, db |-> db]
    ELSE AliasLoop(DeleteAliases(db, id), id, aliases, 1,
                   IF fail_at > 3 THEN fail_at - 3 ELSE 0)

\* one iteration of the loop of upsert_subjects
UpsertOne(db, subject, source, at, fail_at) ==
    LET id  == SubjectId(source, subject.source_ref)
        row == WriteRow(db, id, subject, source, at, fail_at)
        als == ReplaceAliases(row.db, id, subject.aliases, fail_at)
    IN  IF ~row.ok THEN row
        ELSE [ok |-> als.ok, db |-> als.db, inserted |-> row.inserted,
              updated |-> row.updated]

\* (mutant of UpsertCount: the rows inserted only)
UpsertCountInserted(inserted, updated) == inserted

\* Ok(inserted + updated)
UpsertCount(inserted, updated) == inserted + updated

\* the loop: acc = [db, inserted, updated]; fault = <<subject number,
\* statement number>> of the statement that fails (<<0, 0>>: none)
RECURSIVE UpsertLoop(_, _, _, _, _, _)
UpsertLoop(acc, subjects, source, at, k, fault) ==
    IF k > Len(subjects)
    THEN [ok |-> TRUE, db |-> acc.db,
          count |-> UpsertCount(acc.inserted, acc.updated)]
    ELSE LET one == UpsertOne(acc.db, subjects[k], source, at,
                              IF fault[1] = k THEN fault[2] ELSE 0)
         IN  IF ~one.ok THEN [ok |-> FALSE, db |-> one.db, count |-> 0]
             ELSE UpsertLoop([db |-> one.db,
                              inserted |-> acc.inserted + one.inserted,
                              updated |-> acc.updated + one.updated],
                             subjects, source, at, k + 1, fault)

\* upsert_subjects
upsert_subjects(db, subjects, source, at, fault) ==
    UpsertLoop([db |-> db, inserted |-> 0, updated |-> 0], subjects, source,
               at, 1, fault)

MaxSubjects == 2    \* subjects in one call
MaxAliases == 2     \* aliases of one subject
MaxRuns == 2        \* calls with the same arguments

AliasChoices ==
    SeqsUpTo({ [name |-> n, alias_type |-> "aka"] : n \in {"mary", "masha"} },
             MaxAliases)

ParsedSubjects ==
    { [source_ref |-> ref, kind |-> k, primary_name |-> n, aliases |-> al,
       date_of_birth_year |-> Some(1937), country |-> Some("IQ")] :
        ref \in {"a", "b"}, k \in {"person", "entity"},
        n \in {"maria"}, al \in AliasChoices }

\* the tables before the first call: empty, or holding an older version of
\* subject a
EmptyDb == [subject |-> {}, alias |-> {}, seq |-> 0]

OlderDb ==
    [subject |-> { [id |-> "eu_a", kind |-> "person", primary_name |-> "marta",
                    date_of_birth_year |-> None, country |-> None,
                    source |-> "EU", source_ref |-> "a",
                    created_at |-> 0, updated_at |-> 0] },
     alias |-> { [id |-> 1, subject_id |-> "eu_a", name |-> "old",
                  alias_type |-> "aka"] },
     seq |-> 1]

\* the statements of a call that can fail
Faults(subjects) ==
    { <<0, 0>> } \cup
    { <<i, k>> : i \in 1..Len(subjects), k \in 1..(3 + MaxAliases) }

UpsertInit ==
    /\ up_in \in { <<[subjects |-> ss, source |-> "EU"]>> :
                     ss \in SeqsUpTo(ParsedSubjects, MaxSubjects) }
    /\ up_db \in { EmptyDb, OlderDb }
    /\ up_out = << >>
    /\ BaseIdle /\ HashIdle /\ BatchIdle /\ ParseIdle /\ RetryIdle
    /\ RefreshIdle /\ RetrievalIdle /\ DispatchIdle /\ VersionIdle

\* one call of upsert_subjects with the arguments up_in, at time "call number"
UpsertRun(fault) ==
    /\ Len(up_out) < MaxRuns
    /\ LET at == Len(up_out) + 1
           r  == upsert_subjects(up_db, up_in[1].subjects, up_in[1].source,
                                 at, fault)
       IN  /\ up_db' = r.db
           /\ up_out' = Append(up_out, [ok |-> r.ok, count |-> r.count,
                                        fault |-> fault, before |-> up_db,
                                        after |-> r.db])
    /\ UNCHANGED <<up_in, baseVars, hashVars, batchVars, parseVars, retryVars,
                   refreshVars, retrievalVars, dispatchVars, versionVars>>

UpsertNext == \E fault \in Faults(up_in[1].subjects) : UpsertRun(fault)

UpsertSpec == UpsertInit /\ [][UpsertNext]_vars

----------------------------------------------------------------------------
(* RefreshSpec: one run of the refresh job (crates/ingest/src/main.rs) next *)
(* to the screening queries of a running API server                         *)

\* the sources in the order main ingests them
RefreshSources == <<"EU", "UN", "UK">>

\* a subject of Corpus as its adapter parses it
ParsedFrom(subject_id, source_ref, aliases) ==
    LET c == CHOOSE x \in Corpus : x.subject_id = subject_id
    IN  [source_ref |-> source_ref, kind |-> "person",
         primary_name |-> c.primary_name, aliases |-> aliases,
         date_of_birth_year |-> c.dob_year, country |-> c.country]

\* what each source publishes now
Published(source) ==
    CASE source = "EU" ->
           << ParsedFrom("eu_1", "1", <<[name |-> "mary", alias_type |-> "aka"]>>),
              ParsedFrom("eu_4", "4", << >>) >>
      [] source = "UN" -> << ParsedFrom("un_2", "2", << >>) >>
      [] source = "UK" -> << ParsedFrom("uk_3", "3", << >>) >>

\* build_from_db: one document per subject row (the documents carry the
\* fields of Corpus), visible after the single commit
build_from_db(db) ==
    { c \in Corpus : \E r \in db.subject :
        /\ r.id = c.subject_id /\ r.primary_name = c.primary_name
        /\ r.country = c.country /\ r.date_of_birth_year = c.dob_year }

\* the tables an earlier refresh left, when EU published subject 1 under
\* another alias and UK what it publishes now
EarlierDb ==
    LET eu == upsert_subjects(EmptyDb,
                  << ParsedFrom("eu_1", "1",
                                <<[name |-> "old", alias_type |-> "aka"]>>) >>,
                  "EU", 0, <<0, 0>>)
    IN  upsert_subjects(eu.db, Published("UK"), "UK", 0, <<0, 0>>).db

\* the subscription r1 as add_monitored_subject stored it
EarlierSubs ==
    add_monitored_subject({}, << >>, FALSE, 1, DefaultTenant,
        CHOOSE r \in AddRequests : r.reference_id = "r1", 0).rows

\* what can happen to one source: its fetch or its parse fails, a statement
\* of upsert_subjects fails, record_dataset_version fails, or nothing fails
Outcomes(source) ==
    { [step |-> s, fault |-> <<0, 0>>] : s \in {"ok", "fetch", "parse", "version"} }
      \cup { [step |-> "store", fault |-> <<i, k>>] :
               i \in 1..Len(Published(source)), k \in 1..(3 + MaxAliases) }

AllOutcomes ==
    UNION { Outcomes(RefreshSources[k]) : k \in DOMAIN RefreshSources }

\* (mutant of NextPhase: the re-scan before build_from_db)
NextPhaseRescanEarly(pc) ==
    CASE pc = "EU" -> "UN" [] pc = "UN" -> "UK" [] pc = "UK" -> "remove"
      [] pc = "remove" -> "create" [] pc = "create" -> "rescan"
      [] pc = "rescan" -> "build" [] OTHER -> "done"

\* the statement main runs after the one at pc
NextPhase(pc) ==
    CASE pc = "EU" -> "UN" [] pc = "UN" -> "UK" [] pc = "UK" -> "remove"
      [] pc = "remove" -> "create" [] pc = "create" -> "build"
      [] pc = "build" -> "rescan" [] OTHER -> "done"

RefreshInit ==
    /\ rf_pc = RefreshSources[1]
    /\ rf_db \in { EmptyDb, EarlierDb }
    /\ rf_index = IF rf_db = EmptyDb THEN None ELSE Some(build_from_db(rf_db))
    /\ rf_subs \in { {}, EarlierSubs }
    /\ rf_res = << >>
    /\ rf_log = << >>
    /\ rf_pre = [db |-> rf_db, index |-> rf_index]
    /\ rf_reads = {}
    /\ BaseIdle /\ HashIdle /\ UpsertIdle /\ BatchIdle /\ ParseIdle /\ RetryIdle
    /\ RetrievalIdle /\ DispatchIdle /\ VersionIdle

refreshOthers == <<baseVars, hashVars, upsertVars, batchVars, parseVars,
                   retryVars, retrievalVars, dispatchVars, versionVars>>

\* match fetch_and_ingest_X(&conn).await: Ok is logged with its count, Err is
\* logged, and main goes on to the next source either way. The
\* dataset_version row is the Ok entry of rf_log
FetchAndIngest(outcome) ==
    /\ \E k \in DOMAIN RefreshSources : RefreshSources[k] = rf_pc
    /\ outcome \in Outcomes(rf_pc)
    /\ LET r == upsert_subjects(rf_db, Published(rf_pc), rf_pc, 1,
                                outcome.fault)
       IN  IF outcome.step \in {"fetch", "parse"}
           THEN /\ rf_db' = rf_db
                /\ rf_log' = Append(rf_log, [source |-> rf_pc, ok |-> FALSE,
                                             count |-> 0])
           ELSE /\ rf_db' = r.db
                /\ rf_log' = Append(rf_log,
                       [source |-> rf_pc,
                        ok |-> r.ok /\ outcome.step # "version",
                        count |-> IF r.ok /\ outcome.step # "version"
                                  THEN r.count ELSE 0])
    /\ rf_pc' = NextPhase(rf_pc)
    /\ UNCHANGED <<rf_index, rf_subs, rf_res, rf_pre, rf_reads, refreshOthers>>

\* if index_path.exists() { std::fs::remove_dir_all(&index_path)? }
RemoveIndexDir ==
    /\ rf_pc = "remove"
    /\ rf_index' = None
    /\ rf_pc' = NextPhase(rf_pc)
    /\ UNCHANGED <<rf_db, rf_subs, rf_res, rf_log, rf_pre, rf_reads,
                   refreshOthers>>

\* SearchIndex::create: the directory and the meta file of an index without
\* segments
CreateIndex ==
    /\ rf_pc = "create"
    /\ rf_index' = Some({})
    /\ rf_pc' = NextPhase(rf_pc)
    /\ UNCHANGED <<rf_db, rf_subs, rf_res, rf_log, rf_pre, rf_reads,
                   refreshOthers>>

\* index.build_from_db(&conn): the documents become visible at writer.commit()
BuildFromDb ==
    /\ rf_pc = "build"
    /\ rf_index' = Some(build_from_db(rf_db))
    /\ rf_pc' = NextPhase(rf_pc)
    /\ UNCHANGED <<rf_db, rf_subs, rf_res, rf_log, rf_pre, rf_reads,
                   refreshOthers>>

\* re_screen_monitored_subjects(&conn, &index)
ReScreen ==
    /\ rf_pc = "rescan"
    /\ LET subjects == get_all_active_subjects(rf_subs)
           db == RescanLoop(subjects, 1, [rows |-> rf_subs, res |-> rf_res],
                            Unwrap(rf_index), 1)
       IN  /\ rf_subs' = db.rows
           /\ rf_res' = db.res
    /\ rf_pc' = NextPhase(rf_pc)
    /\ UNCHANGED <<rf_db, rf_index, rf_log, rf_pre, rf_reads, refreshOthers>>

\* a screening query of the API server, whose engine was opened on the index
\* directory before the run: search_candidates takes self.index.reader(),
\* which reads the directory as it is now
ScreenDuringRefresh ==
    /\ rf_pre.index # None
    /\ rf_reads' = rf_reads \cup
           { [index |-> rf_index,
              candidates |-> search_candidates(rf_index, <<maria>>, 10)] }
    /\ UNCHANGED <<rf_pc, rf_db, rf_index, rf_subs, rf_res, rf_log, rf_pre,
                   refreshOthers>>

RefreshNext ==
    \/ \E outcome \in AllOutcomes : FetchAndIngest(outcome)
    \/ RemoveIndexDir
    \/ CreateIndex
    \/ BuildFromDb
    \/ ReScreen
    \/ ScreenDuringRefresh

RefreshSpec == RefreshInit /\ [][RefreshNext]_vars

----------------------------------------------------------------------------
(* RetrievalSpec: search_candidates and the hit list built from it *)

li == <<"l", "i">>
xi == <<"x", "i">>
ma == <<"m", "a">>

QueryWords == { li, xi, ma, yan, maria, marta }

MaxWords == 2    \* tokens in a query

RetrievalInit ==
    /\ cn_in \in { <<[words |-> ws, docs |-> ds, limit |-> l]>> :
                     ws \in SeqsUpTo(QueryWords, MaxWords),
                     ds \in SUBSET Documents, l \in {1, 10} }
    /\ cn_out = << >>
    /\ BaseIdle /\ HashIdle /\ UpsertIdle /\ BatchIdle /\ ParseIdle /\ RetryIdle
    /\ RefreshIdle /\ DispatchIdle /\ VersionIdle

\* search_and_score on an opened index: the candidates and the hits
SearchCandidates ==
    /\ cn_out = << >>
    /\ LET q == cn_in[1]
       IN  cn_out' = << [candidates |->
                            search_candidates(Some(q.docs), q.words, q.limit * 10),
                         hits |-> EngineScreening(Some(q.docs), q.words, None,
                                                  None, q.limit)] >>
    /\ UNCHANGED <<cn_in, baseVars, hashVars, upsertVars, batchVars, parseVars,
                   retryVars, refreshVars, dispatchVars, versionVars>>

RetrievalNext == SearchCandidates

RetrievalSpec == RetrievalInit /\ [][RetrievalNext]_vars

----------------------------------------------------------------------------
(* BatchSpec: the batch endpoints and the process_batch tasks they spawn *)

MaxJobs == 2       \* batch jobs created
MaxRecords == 2    \* records in a batch request

\* new_request_id: an id no earlier job has
JobIds == [n \in 1..MaxJobs |-> "job" \o ToString(n)]

BatchRecords ==
    { [reference_id |-> Some("a"), name |-> <<maria>>, country |-> Some("IQ"),
       date_of_birth |-> Some("1937-04-28")],
      [reference_id |-> None, name |-> <<anna, marie>>, country |-> None,
       date_of_birth |-> Some("unknown")],
      [reference_id |-> Some("b"), name |-> <<john, doe>>, country |-> None,
       date_of_birth |-> None] }

\* date_of_birth.split('-').next().parse::<i32>().ok()
ParseDobYear(date_of_birth) ==
    IF date_of_birth = None THEN None
    ELSE CASE Unwrap(date_of_birth) = "1937-04-28" -> Some(1937)
           [] OTHER -> None

\* BatchJob::new
NewBatchJob(id, total_records) ==
    [id |-> id, status |-> "Processing", total_records |-> total_records,
     processed_records |-> 0, results |-> << >>]

\* the BatchResult process_batch pushes for one record (the server runs
\* with an engine on the index of Corpus)
BatchResultOf(record) ==
    [reference_id |-> record.reference_id, name |-> record.name,
     hits |-> perform_screening(TRUE, Some(Corpus), record.name,
                                record.country,
                                ParseDobYear(record.date_of_birth))]

\* (mutant of ResultsReady: no status check)
ResultsReadyAlways(job) == TRUE

\* get_batch_results: job.status != BatchStatus::Completed answers 400
ResultsReady(job) == job.status = "Completed"

BatchInit ==
    /\ bt_jobs = << >>
    /\ bt_tasks = << >>
    /\ bt_resp = << >>
    /\ BaseIdle /\ HashIdle /\ UpsertIdle /\ ParseIdle /\ RetryIdle
    /\ RefreshIdle /\ RetrievalIdle /\ DispatchIdle /\ VersionIdle

batchOthers == <<baseVars, hashVars, upsertVars, parseVars, retryVars,
                 refreshVars, retrievalVars, dispatchVars, versionVars>>

\* POST /v1/batch: the job is stored as Processing and process_batch spawned.
\* bt_jobs is the map as the sequence of its entries in creation order, a
\* task is [records, results] with results the task's local vector
CreateBatch(records) ==
    /\ Len(bt_jobs) < MaxJobs
    /\ LET job_id == JobIds[Len(bt_jobs) + 1]
       IN  /\ bt_jobs' = Append(bt_jobs, NewBatchJob(job_id, Len(records)))
           /\ bt_tasks' = Append(bt_tasks, [records |-> records,
                                            results |-> << >>, done |-> FALSE])
           /\ bt_resp' = << [handler |-> "create_batch", job_id |-> job_id,
                             code |-> 200, body |-> << >>] >>
    /\ UNCHANGED batchOthers

\* (mutant of ProgressAfter: job.processed_records = idx)
ProgressAfterLagging(idx) == idx

\* job.processed_records = idx + 1
ProgressAfter(idx) == idx + 1

\* one iteration of the loop of process_batch
ProcessRecord(j) ==
    /\ j \in DOMAIN bt_tasks
    /\ ~bt_tasks[j].done
    /\ Len(bt_tasks[j].results) < Len(bt_tasks[j].records)
    /\ LET idx == Len(bt_tasks[j].results)
           record == bt_tasks[j].records[idx + 1]
       IN  /\ bt_tasks' = [bt_tasks EXCEPT ![j].results =
                              Append(@, BatchResultOf(record))]
           /\ bt_jobs' = [bt_jobs EXCEPT ![j].processed_records =
                                                ProgressAfter(idx)]
    /\ UNCHANGED <<bt_resp, batchOthers>>

\* the end of process_batch: status Completed, results stored
CompleteBatch(j) ==
    /\ j \in DOMAIN bt_tasks
    /\ ~bt_tasks[j].done
    /\ Len(bt_tasks[j].results) = Len(bt_tasks[j].records)
    /\ bt_jobs' = [bt_jobs EXCEPT ![j].status = "Completed",
                                  ![j].results = bt_tasks[j].results]
    /\ bt_tasks' = [bt_tasks EXCEPT ![j].done = TRUE]
    /\ UNCHANGED <<bt_resp, batchOthers>>

\* GET /v1/batch/:job_id
GetBatchStatus(job_id) ==
    /\ bt_resp' =
         IF \E j \in DOMAIN bt_jobs : bt_jobs[j].id = job_id
         THEN LET job == bt_jobs[CHOOSE j \in DOMAIN bt_jobs :
                                   bt_jobs[j].id = job_id]
              IN  << [handler |-> "get_batch_status", job_id |-> job_id,
                      code |-> 200,
                      body |-> <<job.status, job.processed_records>>] >>
         ELSE << [handler |-> "get_batch_status", job_id |-> job_id,
                  code |-> 404, body |-> << >>] >>
    /\ UNCHANGED <<bt_jobs, bt_tasks, batchOthers>>

\* GET /v1/batch/:job_id/results
GetBatchResults(job_id) ==
    /\ bt_resp' =
         IF \E j \in DOMAIN bt_jobs : bt_jobs[j].id = job_id
         THEN LET job == bt_jobs[CHOOSE j \in DOMAIN bt_jobs :
                                   bt_jobs[j].id = job_id]
              IN  IF ~ResultsReady(job)
                  THEN << [handler |-> "get_batch_results",
                           job_id |-> job_id, code |-> 400, body |-> << >>] >>
                  ELSE << [handler |-> "get_batch_results",
                           job_id |-> job_id, code |-> 200,
                           body |-> job.results] >>
         ELSE << [handler |-> "get_batch_results", job_id |-> job_id,
                  code |-> 404, body |-> << >>] >>
    /\ UNCHANGED <<bt_jobs, bt_tasks, batchOthers>>

RequestedIds == { JobIds[k] : k \in DOMAIN JobIds } \cup {"unknown"}

BatchNext ==
    \/ \E records \in SeqsUpTo(BatchRecords, MaxRecords) : CreateBatch(records)
    \/ \E j \in 1..MaxJobs : ProcessRecord(j)
    \/ \E j \in 1..MaxJobs : CompleteBatch(j)
    \/ \E job_id \in RequestedIds : GetBatchStatus(job_id)
    \/ \E job_id \in RequestedIds : GetBatchResults(job_id)

BatchSpec == BatchInit /\ [][BatchNext]_vars

----------------------------------------------------------------------------
(* ParseSpec: the roster parsers on files with malformed fragments.  A file *)
(* is given by its entries; EventsOf is what the XML reader yields for it,  *)
(* an Err where a fragment is malformed, the reader going on behind it      *)

Attr(key, value) == [key |-> key, value |-> value]
XmlEvent(type, name, attrs, text) ==
    [type |-> type, name |-> name, attrs |-> attrs, text |-> text]
XmlErr == XmlEvent("Err", "", << >>, "")

\* an entry of a file: its subject's name and logical id, and where it is
\* malformed: "none", "inside" (a broken element after the name), "end" (its
\* end tag is broken), "utf8" (a byte of the name is not valid UTF-8)
EntryFaults == {"none", "inside", "end", "utf8"}

\* what an entry says about the birth: the attributes year and birthdate of
\* its birthdate element ("" = the attribute is absent)
BirthTexts ==
    { [year |-> "1937", birthdate |-> "1937-04-28"],
      [year |-> "1850", birthdate |-> ""],
      [year |-> "", birthdate |-> "0028-04-1937"],
      [year |-> "", birthdate |-> "28.04.1937"] }

\* the reader events of an entry of the EU file
EuEvents(entry) ==
    << XmlEvent("Start", "sanctionEntity",
                <<Attr("euReferenceNumber", "EU." \o entry.id),
                  Attr("logicalId", entry.id)>>, ""),
       XmlEvent("Empty", "subjectType", <<Attr("code", "person")>>, ""),
       XmlEvent("Empty", "nameAlias",
                <<Attr("wholeName", IF entry.fault = "utf8" THEN "U+FFFD"
                                    ELSE entry.name)>>, ""),
       XmlEvent("Empty", "nameAlias",
                <<Attr("firstName", "abu"), Attr("lastName", entry.name)>>, "") >>
    \o (IF entry.fault = "inside" THEN <<XmlErr>> ELSE << >>)
    \o << XmlEvent("Empty", "citizenship",
                   <<Attr("countryIso2Code", "iq")>>, ""),
          XmlEvent("Empty", "birthdate",
                   (IF entry.born.year = "" THEN << >>
                    ELSE <<Attr("year", entry.born.year)>>)
                   \o (IF entry.born.birthdate = "" THEN << >>
                       ELSE <<Attr("birthdate", entry.born.birthdate)>>), ""),
          IF entry.fault = "end" THEN XmlErr
          ELSE XmlEvent("End", "sanctionEntity", << >>, "") >>

\* the reader events of an entry of the Canada or Switzerland file
FlatEvents(entry, person) ==
    << XmlEvent("Start", person, << >>, ""),
       XmlEvent("Start", "Name", << >>, ""),
       XmlEvent("Text", "", << >>, entry.name),
       XmlEvent("End", "Name", << >>, "") >>
    \o (IF entry.fault = "inside" THEN <<XmlErr>> ELSE << >>)
    \o << XmlEvent("Start", "Country", << >>, ""),
          XmlEvent("Text", "", << >>, "IQ"),
          XmlEvent("End", "Country", << >>, ""),
          IF entry.fault = "end" THEN XmlErr
          ELSE XmlEvent("End", person, << >>, "") >>

RECURSIVE EventsOf(_, _)
EventsOf(parser, entries) ==
    IF entries = << >> THEN << XmlEvent("Eof", "", << >>, "") >>
    ELSE (CASE parser = "eu" -> EuEvents(Head(entries))
            [] parser = "canada" -> FlatEvents(Head(entries), "Individual")
            [] parser = "switzerland" -> FlatEvents(Head(entries), "Person"))
         \o EventsOf(parser, Tail(entries))

\* ---- parse_eu_xml ----

EmptyBuilder ==
    [source_ref |-> None, kind |-> None, primary_name |-> None,
     aliases |-> << >>, date_of_birth |-> None, date_of_birth_year |-> None,
     country |-> None, nationalities |-> << >>]

\* the value of the last attribute with this key, "" when there is none
AttrValue(attrs, key) ==
    LET at == { i \in DOMAIN attrs : attrs[i].key = key }
    IN  IF at = {} THEN ""
        ELSE attrs[CHOOSE i \in at : \A k \in at : k <= i].value

\* str::to_uppercase on the values used
ToUppercase(s) == CASE s = "iq" -> "IQ" [] OTHER -> s

\* the characters of the texts used as year and birthdate
Chars(s) ==
    CASE s = "1937" -> <<"1", "9", "3", "7">>
      [] s = "1850" -> <<"1", "8", "5", "0">>
      [] s = "1937-04-28" ->
           <<"1", "9", "3", "7", "-", "0", "4", "-", "2", "8">>
      [] s = "0028-04-1937" ->
           <<"0", "0", "2", "8", "-", "0", "4", "-", "1", "9", "3", "7">>
      [] s = "28.04.1937" ->
           <<"2", "8", ".", "0", "4", ".", "1", "9", "3", "7">>
      [] OTHER -> << >>

Digits == <<"0", "1", "2", "3", "4", "5", "6", "7", "8", "9">>
IsDigit(c) == \E d \in DOMAIN Digits : Digits[d] = c
DigitValue(c) == (CHOOSE d \in DOMAIN Digits : Digits[d] = c) - 1

RECURSIVE DecimalValue(_, _)
DecimalValue(chars, acc) ==
    IF chars = << >> THEN acc
    ELSE DecimalValue(Tail(chars), 10 * acc + DigitValue(Head(chars)))

I32Max == 2147483647    \* i32::MAX

\* str::parse::<i32>(): an optional sign, then one or more digits, nothing
\* else, the value within i32
ParseI32(chars) ==
    LET signed == chars # << >> /\ Head(chars) \in {"+", "-"}
        digits == IF signed THEN Tail(chars) ELSE chars
        value  == DecimalValue(digits, 0)
    IN  IF digits = << >> \/ \E i \in DOMAIN digits : ~IsDigit(digits[i])
        THEN None
        ELSE IF signed /\ Head(chars) = "-"
        THEN (IF value <= I32Max + 1 THEN Some(0 - value) ELSE None)
        ELSE (IF value <= I32Max THEN Some(value) ELSE None)

\* value.parse::<i32>() on the attribute year
ParseYear(s) == ParseI32(Chars(s))

\* extract_year of parser_eu.rs: the first four bytes, parsed as a number
extract_year(s) ==
    IF Len(Chars(s)) >= 4 THEN ParseI32(SubSeq(Chars(s), 1, 4)) ELSE None

\* arm "sanctionEntity": logicalId wins over euReferenceNumber
StartEntity(attrs) ==
    [EmptyBuilder EXCEPT !.source_ref =
        IF AttrValue(attrs, "logicalId") # ""
          THEN Some(AttrValue(attrs, "logicalId"))
        ELSE IF AttrValue(attrs, "euReferenceNumber") # ""
          THEN Some(AttrValue(attrs, "euReferenceNumber"))
        ELSE None]

\* arm "subjectType"
SetKind(builder, attrs) ==
    LET code == AttrValue(attrs, "code")
    IN  IF code \in {"person", "p"} THEN [builder EXCEPT !.kind = Some("person")]
        ELSE IF code \in {"enterprise", "e"}
        THEN [builder EXCEPT !.kind = Some("entity")]
        ELSE builder

\* arm "nameAlias"
AddName(builder, attrs) ==
    LET whole_name == AttrValue(attrs, "wholeName")
        first_name == AttrValue(attrs, "firstName")
        last_name  == AttrValue(attrs, "lastName")
        name == IF whole_name # "" THEN whole_name
                ELSE IF first_name # "" /\ last_name # ""
                  THEN first_name \o " " \o last_name
                ELSE first_name \o last_name
    IN  IF name = "" THEN builder
        ELSE IF builder.primary_name = None
        THEN [builder EXCEPT !.primary_name = Some(name)]
        ELSE [builder EXCEPT !.aliases =
                 Append(@, [name |-> name, alias_type |-> "aka"])]

\* arm "citizenship"
AddCitizenship(builder, attrs) ==
    LET value == AttrValue(attrs, "countryIso2Code")
    IN  IF value # "" /\ value # "00"
        THEN [builder EXCEPT !.nationalities = Append(@, ToUppercase(value))]
        ELSE builder

\* arm "birthdate": attributes year and birthdate (countryIso2Code is not
\* among the attributes of the files used)
AddBirthdate(builder, attrs) ==
    LET year  == ParseYear(AttrValue(attrs, "year"))
        value == AttrValue(attrs, "birthdate")
        b1 == IF year # None /\ builder.date_of_birth_year = None
              THEN [builder EXCEPT !.date_of_birth_year = year] ELSE builder
    IN  IF value # "" /\ b1.date_of_birth = None
        THEN [b1 EXCEPT !.date_of_birth = Some(value),
                        !.date_of_birth_year =
                            IF @ = None THEN extract_year(value) ELSE @]
        ELSE b1

\* SubjectBuilder::build
BuildSubject(builder) ==
    IF builder.primary_name = None THEN None
    ELSE IF Unwrap(builder.primary_name) = "" THEN None
    ELSE Some([source_ref |->
                  IF builder.source_ref # None THEN Unwrap(builder.source_ref)
                  ELSE "eu_" \o Unwrap(builder.primary_name),
               kind |-> IF builder.kind = None THEN "person"
                        ELSE Unwrap(builder.kind),
               primary_name |-> Unwrap(builder.primary_name),
               aliases |-> builder.aliases,
               date_of_birth_year |-> builder.date_of_birth_year,
               country |-> IF builder.country # None THEN builder.country
                           ELSE IF builder.nationalities = << >> THEN None
                           ELSE Some(builder.nationalities[1])])

\* one turn of the loop of parse_eu_xml on the event e;
\* st = [subjects, in_sanction_entity, current_builder, done]
EuStep(st, e) ==
    IF e.type \in {"Start", "Empty"}
    THEN IF e.name = "sanctionEntity"
         THEN [st EXCEPT !.in_sanction_entity = TRUE,
                         !.current_builder = Some(StartEntity(e.attrs))]
         ELSE IF st.in_sanction_entity /\ st.current_builder # None
         THEN [st EXCEPT !.current_builder =
                 Some(CASE e.name = "subjectType" -> SetKind(Unwrap(@), e.attrs)
                        [] e.name = "nameAlias" -> AddName(Unwrap(@), e.attrs)
                        [] e.name = "citizenship" ->
                             AddCitizenship(Unwrap(@), e.attrs)
                        [] e.name = "birthdate" ->
                             AddBirthdate(Unwrap(@), e.attrs)
                        [] OTHER -> Unwrap(@))]
         ELSE st
    ELSE IF e.type = "End" /\ e.name = "sanctionEntity"
    THEN [st EXCEPT !.in_sanction_entity = FALSE,
                    !.current_builder = None,
                    !.subjects =
                        IF st.current_builder = None THEN @
                        ELSE @ \o BuildSubject(Unwrap(st.current_builder))]
    ELSE IF e.type = "Eof" THEN [st EXCEPT !.done = TRUE]
    ELSE st     \* Err: logged, the loop continues; other events ignored

RECURSIVE EuLoop(_, _)
EuLoop(st, events) ==
    IF st.done \/ events = << >> THEN st
    ELSE EuLoop(EuStep(st, Head(events)), Tail(events))

parse_eu_xml(events) ==
    [ok |-> TRUE,
     subjects |-> EuLoop([subjects |-> << >>, in_sanction_entity |-> FALSE,
                          current_builder |-> None, done |-> FALSE],
                         events).subjects]

\* ---- parse_canada_sanctions and parse_switzerland_sanctions ----

\* format!("canada_{}", primary_name.replace(' ', "_").to_lowercase()) on
\* the names used (one lower-case word)
FlatSourceRef(prefix, primary_name) == prefix \o "_" \o primary_name

\* one turn of the loop; st = [subjects, current_subject, current_name,
\* current_country, in_name, in_country, done]; tags = the element names of
\* the format
FlatStep(st, e, tags) ==
    IF e.type = "Start"
    THEN IF e.name \in tags.subject
         THEN [st EXCEPT !.current_subject =
                 Some([source_ref |-> "",
                       kind |-> IF e.name = tags.person THEN "person"
                                ELSE "entity",
                       primary_name |-> "", aliases |-> << >>,
                       date_of_birth_year |-> None, country |-> None])]
         ELSE IF e.name \in tags.name THEN [st EXCEPT !.in_name = TRUE]
         ELSE IF e.name \in tags.country THEN [st EXCEPT !.in_country = TRUE]
         ELSE st
    ELSE IF e.type = "Text"
    THEN IF st.in_name THEN [st EXCEPT !.current_name = e.text]
         ELSE IF st.in_country THEN [st EXCEPT !.current_country = e.text]
         ELSE st
    ELSE IF e.type = "End"
    THEN IF e.name \in tags.subject
         THEN IF st.current_subject = None THEN st
              ELSE LET subject == Unwrap(st.current_subject)
                   IN  [st EXCEPT
                         !.current_subject = None,
                         !.current_name = "", !.current_country = "",
                         !.subjects =
                            IF subject.primary_name = "" THEN @
                            ELSE Append(@,
                              [subject EXCEPT
                                 !.source_ref = FlatSourceRef(tags.prefix,
                                                    subject.primary_name),
                                 !.country =
                                    IF st.current_country # ""
                                    THEN Some(st.current_country) ELSE @])]
         ELSE IF e.name \in tags.name
         THEN [st EXCEPT
                 !.in_name = FALSE, !.current_name = "",
                 !.current_subject =
                    IF @ = None THEN @
                    ELSE IF Unwrap(@).primary_name = ""
                    THEN Some([Unwrap(@) EXCEPT
                                 !.primary_name = st.current_name])
                    ELSE Some([Unwrap(@) EXCEPT !.aliases =
                                 Append(@, [name |-> st.current_name,
                                            alias_type |-> "aka"])])]
         ELSE IF e.name \in tags.country
         THEN [st EXCEPT
                 !.in_country = FALSE, !.current_country = "",
                 !.current_subject =
                    IF @ = None THEN @
                    ELSE IF Unwrap(@).country = None /\ st.current_country # ""
                    THEN Some([Unwrap(@) EXCEPT
                                 !.country = Some(st.current_country)])
                    ELSE @]
         ELSE st
    ELSE IF e.type = "Eof" THEN [st EXCEPT !.done = TRUE]
    ELSE IF e.type = "Err" THEN [st EXCEPT !.done = TRUE]   \* warn!, break
    ELSE st

RECURSIVE FlatLoop(_, _, _)
FlatLoop(st, events, tags) ==
    IF st.done \/ events = << >> THEN st
    ELSE FlatLoop(FlatStep(st, Head(events), tags), Tail(events), tags)

CanadaTags ==
    [subject |-> {"Entity", "Individual"}, person |-> "Individual",
     name |-> {"Name"}, country |-> {"Country"}, prefix |-> "canada"]

SwitzerlandTags ==
    [subject |-> {"Entity", "Person"}, person |-> "Person",
     name |-> {"Name", "FullName"}, country |-> {"Country", "Nationality"},
     prefix |-> "switzerland"]

\* std::str::from_utf8(xml)? fails the call on a file that is not UTF-8
ParseFlat(entries, events, tags) ==
    IF \E k \in DOMAIN entries : entries[k].fault = "utf8"
    THEN [ok |-> FALSE, subjects |-> << >>]
    ELSE [ok |-> TRUE,
          subjects |-> FlatLoop([subjects |-> << >>, current_subject |-> None,
                                 current_name |-> "", current_country |-> "",
                                 in_name |-> FALSE, in_country |-> FALSE,
                                 done |-> FALSE], events, tags).subjects]

parse_canada_sanctions(entries, events) ==
    ParseFlat(entries, events, CanadaTags)

parse_switzerland_sanctions(entries, events) ==
    ParseFlat(entries, events, SwitzerlandTags)

MaxEntries == 3    \* entries in a file

\* entry k of a file is the subject named EntryNames[k] with logical id k
EntryNames == <<"saddam", "ali", "omar">>
EntryIds == <<"11", "12", "13">>

RosterFiles ==
    { [ k \in 1..n |-> [name |-> EntryNames[k], id |-> EntryIds[k],
                        fault |-> f[k], born |-> b[k]] ] :
        n \in 0..MaxEntries, f \in [1..MaxEntries -> EntryFaults],
        b \in [1..MaxEntries -> BirthTexts] }

ParseInit ==
    /\ pr_in \in { <<[parser |-> p, entries |-> es]>> :
                     p \in {"eu", "canada", "switzerland"}, es \in RosterFiles }
    /\ pr_out = << >>
    /\ BaseIdle /\ HashIdle /\ UpsertIdle /\ BatchIdle /\ RetryIdle
    /\ RefreshIdle /\ RetrievalIdle /\ DispatchIdle /\ VersionIdle

\* the parser of the source runs on the file
ParseFile ==
    /\ pr_out = << >>
    /\ LET q == pr_in[1]
           events == EventsOf(q.parser, q.entries)
       IN  pr_out' = << CASE q.parser = "eu" -> parse_eu_xml(events)
                          [] q.parser = "canada" ->
                               parse_canada_sanctions(q.entries, events)
                          [] q.parser = "switzerland" ->
                               parse_switzerland_sanctions(q.entries, events) >>
    /\ UNCHANGED <<pr_in, baseVars, hashVars, upsertVars, batchVars, retryVars,
                   refreshVars, retrievalVars, dispatchVars, versionVars>>

ParseNext == ParseFile

ParseSpec == ParseInit /\ [][ParseNext]_vars

----------------------------------------------------------------------------
(* RetrySpec: the HTTP fetch of one roster source *)

MaxRetries == 3    \* max_retries of both calls of retry_with_backoff

\* the sources fetched with a single request, and the one with retries
SingleRequestSources == {"UN", "OFAC", "CANADA", "SWITZERLAND", "AUSTRALIA"}
FetchSources == {"EU", "UK"} \cup SingleRequestSources

\* UK_SANCTIONS_URLS, each entry by the format its name ends in
UK_SANCTIONS_URLS == <<"xml", "xml", "xml", "csv">>

\* the position (from 0) of the first entry after position `from` - 1 that
\* the loop requests, the ones ending in ".csv" being passed over; the
\* length of the list when there is none
NextRequestedUrl(from) ==
    LET left == { i \in from..(Len(UK_SANCTIONS_URLS) - 1) :
                    UK_SANCTIONS_URLS[i + 1] # "csv" }
    IN  IF left = {} THEN Len(UK_SANCTIONS_URLS)
        ELSE CHOOSE i \in left : \A j \in left : i <= j

\* what a request of the UK fetch can come to: as RequestOutcomes, a 2xx
\* response standing for one whose body is read and has more than 1000 bytes;
\* a 2xx response with a body of at most 1000 bytes; a 2xx response whose
\* body cannot be read
UkOutcomes == {"2xx", "5xx", "err", "small", "unreadable"}

\* initial_delay_ms of the call of retry_with_backoff made in this phase
InitialDelayMs(phase) == IF phase = "rss" THEN 1000 ELSE 2000

\* 1 << attempt
RECURSIVE ShiftLeftOne(_)
ShiftLeftOne(bits) == IF bits = 0 THEN 1 ELSE 2 * ShiftLeftOne(bits - 1)

\* delay_ms = initial_delay_ms * (1 << attempt)
DelayMs(phase, nth) == InitialDelayMs(phase) * ShiftLeftOne(nth)

\* what a request can come to: a response with a success status, a response
\* with an error status, or no response (connection error, timeout)
RequestOutcomes == {"2xx", "5xx", "err"}

RetryInit ==
    /\ rt_in \in { <<[source |-> s]>> : s \in FetchSources }
    /\ rt_run = [phase |-> CASE rt_in[1].source = "EU" -> "rss"
                            [] rt_in[1].source = "UK" -> "uk"
                            [] OTHER -> "single",
                 attempt |-> 0, sleeping |-> FALSE, log |-> << >>]
    /\ rt_out = << >>
    /\ BaseIdle /\ HashIdle /\ UpsertIdle /\ BatchIdle /\ ParseIdle
    /\ RefreshIdle /\ RetrievalIdle /\ DispatchIdle /\ VersionIdle

retryOthers == <<baseVars, hashVars, upsertVars, batchVars, parseVars,
                 refreshVars, retrievalVars, dispatchVars, versionVars>>

\* one f().await inside retry_with_backoff (fetch_eu_sanctions_xml), with
\* what follows it up to the next request or sleep: Ok(response) leaves the
\* retry loop at once and the status is checked outside of it
RetriedRequest(outcome) ==
    /\ rt_out = << >>
    /\ rt_run.phase \in {"rss", "xml"}
    /\ ~rt_run.sleeping
    /\ LET entry == [phase |-> rt_run.phase, attempt |-> rt_run.attempt,
                     outcome |-> outcome, wait |-> 0]
           log == Append(rt_run.log, entry)
       IN  CASE outcome = "err" /\ rt_run.attempt < MaxRetries ->
                  /\ rt_run' = [rt_run EXCEPT !.sleeping = TRUE, !.log = log]
                  /\ rt_out' = rt_out
             [] outcome = "err" /\ rt_run.attempt >= MaxRetries ->
                  /\ rt_run' = [rt_run EXCEPT !.phase = "done", !.log = log]
                  /\ rt_out' = << [ok |-> FALSE, error |-> entry] >>
             [] outcome = "5xx" ->
                  /\ rt_run' = [rt_run EXCEPT !.phase = "done", !.log = log]
                  /\ rt_out' = << [ok |-> FALSE, error |-> entry] >>
             [] outcome = "2xx" /\ rt_run.phase = "rss" ->
                  /\ rt_run' = [rt_run EXCEPT !.phase = "xml", !.attempt = 0,
                                              !.log = log]
                  /\ rt_out' = rt_out
             [] outcome = "2xx" /\ rt_run.phase = "xml" ->
                  /\ rt_run' = [rt_run EXCEPT !.phase = "done", !.log = log]
                  /\ rt_out' = << [ok |-> TRUE, error |-> entry] >>
    /\ UNCHANGED <<rt_in, retryOthers>>

\* tokio::time::sleep(Duration::from_millis(delay_ms)), then the next turn
\* of the loop
BackoffSleep ==
    /\ rt_out = << >>
    /\ rt_run.sleeping
    /\ rt_run' = [rt_run EXCEPT
                    !.sleeping = FALSE,
                    !.attempt = @ + 1,
                    !.log[Len(rt_run.log)].wait =
                        DelayMs(rt_run.phase, rt_run.attempt)]
    /\ UNCHANGED <<rt_in, rt_out, retryOthers>>

\* fetch_un_sanctions_xml and the fetches written like it: one send() with
\* `?`, then the status check
SingleRequest(outcome) ==
    /\ rt_out = << >>
    /\ rt_run.phase = "single"
    /\ LET entry == [phase |-> "single", attempt |-> 0, outcome |-> outcome,
                     wait |-> 0]
       IN  /\ rt_run' = [rt_run EXCEPT !.phase = "done",
                                       !.log = Append(@, entry)]
           /\ rt_out' = << [ok |-> outcome = "2xx", error |-> entry] >>
    /\ UNCHANGED <<rt_in, retryOthers>>

\* fetch_uk_sanctions_xml: one turn of the loop over UK_SANCTIONS_URLS
\* (attempt is the position of the URL, from 0). A connection error, an
\* error status and a body of at most 1000 bytes go on to the next URL;
\* `response.bytes().await.context(..)?` returns the error of the read
UkUrlRequest(outcome) ==
    /\ rt_out = << >>
    /\ rt_run.phase = "uk"
    /\ LET url == NextRequestedUrl(rt_run.attempt)
           entry == [phase |-> "uk", attempt |-> url,
                     outcome |-> outcome, wait |-> 0]
           log == Append(rt_run.log, entry)
       IN  CASE outcome = "2xx" ->
                  /\ rt_run' = [rt_run EXCEPT !.phase = "done", !.log = log]
                  /\ rt_out' = << [ok |-> TRUE, error |-> entry] >>
             [] outcome = "unreadable" ->
                  /\ rt_run' = [rt_run EXCEPT !.phase = "done", !.log = log]
                  /\ rt_out' = << [ok |-> FALSE, error |-> entry] >>
             [] outcome \notin {"2xx", "unreadable"}
                  /\ NextRequestedUrl(url + 1) < Len(UK_SANCTIONS_URLS) ->
                  /\ rt_run' = [rt_run EXCEPT !.attempt = url + 1, !.log = log]
                  /\ rt_out' = rt_out
             [] outcome \notin {"2xx", "unreadable"}
                  /\ NextRequestedUrl(url + 1) >= Len(UK_SANCTIONS_URLS) ->
                  /\ rt_run' = [rt_run EXCEPT !.phase = "page", !.attempt = 0,
                                              !.log = log]
                  /\ rt_out' = rt_out
    /\ UNCHANGED <<rt_in, retryOthers>>

\* scrape_uk_sanctions_page: the request of the page, then the request of
\* the download link found on it (one link assumed); every failure, a page
\* without link ("small") among them, ends in the bail! of
\* fetch_uk_sanctions_xml
UkScrapeRequest(outcome) ==
    /\ rt_out = << >>
    /\ rt_run.phase \in {"page", "link"}
    /\ LET entry == [phase |-> rt_run.phase, attempt |-> 0,
                     outcome |-> outcome, wait |-> 0]
           log == Append(rt_run.log, entry)
       IN  CASE outcome = "2xx" /\ rt_run.phase = "page" ->
                  /\ rt_run' = [rt_run EXCEPT !.phase = "link", !.log = log]
                  /\ rt_out' = rt_out
             [] outcome = "2xx" /\ rt_run.phase = "link" ->
                  /\ rt_run' = [rt_run EXCEPT !.phase = "done", !.log = log]
                  /\ rt_out' = << [ok |-> TRUE, error |-> entry] >>
             [] outcome # "2xx" ->
                  /\ rt_run' = [rt_run EXCEPT !.phase = "done", !.log = log]
                  /\ rt_out' = << [ok |-> FALSE, error |-> entry] >>
    /\ UNCHANGED <<rt_in, retryOthers>>

RetryNext ==
    \/ \E outcome \in RequestOutcomes : RetriedRequest(outcome)
    \/ BackoffSleep
    \/ \E outcome \in RequestOutcomes : SingleRequest(outcome)
    \/ \E outcome \in UkOutcomes : UkUrlRequest(outcome)
    \/ \E outcome \in UkOutcomes : UkScrapeRequest(outcome)

RetrySpec == RetryInit /\ [][RetryNext]_vars

----------------------------------------------------------------------------
(* DispatchSpec: monitoring_callback_loop on tables that re-scans have      *)
(* filled, with the payload of every POST and the sleeps between them; no   *)
(* API handler runs, so monitoring_db is free whenever the loop locks it    *)

MaxSweeps == 2      \* sweeps of the callback loop
MaxRecorded == 2    \* result rows recorded before the loop runs
MaxClock == 1       \* last reading of the clock

\* the subscriptions r1 (with a callback_url) and r2 (without), ids 1 and 2
RecordedSubscriptions ==
    LET r1 == CHOOSE r \in AddRequests : r.reference_id = "r1"
        r2 == CHOOSE r \in AddRequests : r.reference_id = "r2"
        first == add_monitored_subject({}, << >>, FALSE, 1, DefaultTenant, r1, 0)
    IN  add_monitored_subject(first.rows, << >>, FALSE, 2, DefaultTenant, r2,
                              0).rows

\* the tables after the re-scans recorded the rows of `records`, the k-th
\* of them at time k - 1
RECURSIVE RecordAll(_, _, _)
RecordAll(records, k, db) ==
    IF k > Len(records) THEN db
    ELSE RecordAll(records, k + 1,
             record_monitoring_result(db, records[k].subject_id,
                 compute_result_hash(<< >>), 0, 0, records[k].has_changes,
                 k - 1))

RecordedTables ==
    { RecordAll(records, 1, [rows |-> RecordedSubscriptions, res |-> << >>]) :
        records \in SeqsUpTo({ [subject_id |-> id, has_changes |-> h] :
                                 id \in {1, 2}, h \in BOOLEAN }, MaxRecorded) }

\* (mutant of BackoffSeconds: the exponent counted from 0)
BackoffSecondsFromZero(nth) == 2 ^ (nth - 1)

\* 2_u64.pow(attempt)
BackoffSeconds(nth) == 2 ^ nth

\* the callback_payload of one entry of the sweep: the fields of the joined
\* row, and screened_at read from the clock
CallbackPayload(entry, at) ==
    [ reference_id |-> entry.subject.reference_id,
      name |-> entry.subject.name,
      has_changes |-> entry.result.has_changes,
      screened_at |-> at,
      hit_count |-> entry.result.hit_count,
      highest_score |-> entry.result.highest_score ]

DispatchInit ==
    /\ \E db \in RecordedTables :
          /\ cb_subs = db.rows /\ cb_res = db.res
          /\ cb_now = Max(Len(db.res) - 1, 0)
    /\ cb_loop = [pc |-> "tick", queue |-> << >>, attempt |-> 1, sweep |-> 0,
                  payload |-> None]
    /\ cb_posts = << >>
    /\ BaseIdle /\ HashIdle /\ UpsertIdle /\ BatchIdle /\ ParseIdle /\ RetryIdle
    /\ RefreshIdle /\ RetrievalIdle /\ VersionIdle

dispatchOthers == <<baseVars, hashVars, upsertVars, batchVars, parseVars,
                    retryVars, refreshVars, retrievalVars, versionVars>>

\* time passes
ClockTick ==
    /\ cb_now < MaxClock
    /\ cb_now' = cb_now + 1
    /\ UNCHANGED <<cb_subs, cb_res, cb_loop, cb_posts, dispatchOthers>>

\* interval.tick(), lock, get_pending_notifications: the joined rows, each
\* with the result columns the query returned
FetchPending ==
    /\ cb_loop.pc = "tick"
    /\ cb_loop.sweep < MaxSweeps
    /\ LET pending == get_pending_notifications(cb_subs, cb_res)
       IN  cb_loop' = [pc |-> "entry",
                       queue |-> [ i \in DOMAIN pending |->
                                     [ subject |-> pending[i].subject,
                                       result_id |-> pending[i].result_id,
                                       result |-> cb_res[pending[i].result_id] ] ],
                       attempt |-> 1, sweep |-> cb_loop.sweep + 1,
                       payload |-> None]
    /\ UNCHANGED <<cb_subs, cb_res, cb_now, cb_posts, dispatchOthers>>

\* the for loop takes its next entry: nothing is done for a subject without
\* a callback_url, else the payload is built; the sweep ends on an empty list
TakeEntry ==
    /\ cb_loop.pc = "entry"
    /\ cb_loop' =
          IF cb_loop.queue = << >>
          THEN [cb_loop EXCEPT !.pc = "tick"]
          ELSE IF ~IsSome(Head(cb_loop.queue).subject.callback_url)
          THEN [cb_loop EXCEPT !.queue = Tail(@)]
          ELSE [cb_loop EXCEPT
                  !.pc = "post", !.attempt = 1,
                  !.payload = Some(CallbackPayload(Head(cb_loop.queue),
                                                   cb_now))]
    /\ UNCHANGED <<cb_subs, cb_res, cb_now, cb_posts, dispatchOthers>>

\* one turn of for attempt in 1..=3: the POST and what it comes to
PostCallback(status) ==
    /\ cb_loop.pc = "post"
    /\ cb_posts' = Append(cb_posts,
                     [ sweep |-> cb_loop.sweep,
                       result_id |-> Head(cb_loop.queue).result_id,
                       url |-> Unwrap(Head(cb_loop.queue).subject.callback_url),
                       payload |-> Unwrap(cb_loop.payload),
                       attempt |-> cb_loop.attempt,
                       status |-> status, wait |-> 0 ])
    /\ cb_loop' =
          IF IsSuccess(status) THEN [cb_loop EXCEPT !.pc = "mark"]
          ELSE IF cb_loop.attempt < 3 THEN [cb_loop EXCEPT !.pc = "sleep"]
          ELSE [cb_loop EXCEPT !.pc = "entry", !.queue = Tail(@),
                               !.payload = None]
    /\ UNCHANGED <<cb_subs, cb_res, cb_now, dispatchOthers>>

\* if attempt < 3 { sleep(2^attempt s) }, then the next turn of the loop
BackoffThenRetry ==
    /\ cb_loop.pc = "sleep"
    /\ cb_posts' = [cb_posts EXCEPT ![Len(cb_posts)].wait =
                                       BackoffSeconds(cb_loop.attempt)]
    /\ cb_loop' = [cb_loop EXCEPT !.pc = "post", !.attempt = @ + 1]
    /\ UNCHANGED <<cb_subs, cb_res, cb_now, dispatchOthers>>

\* if success: lock, mark_notified
MarkSent ==
    /\ cb_loop.pc = "mark"
    /\ cb_res' = mark_notified(cb_res, Head(cb_loop.queue).result_id)
    /\ cb_loop' = [cb_loop EXCEPT !.pc = "entry", !.queue = Tail(@),
                                  !.payload = None]
    /\ UNCHANGED <<cb_subs, cb_now, cb_posts, dispatchOthers>>

\* the answers a POST can get: a success status, another status, no answer
\* within the 5 s timeout
PostOutcomes == {"2xx", "5xx", "timeout"}

DispatchNext ==
    \/ ClockTick
    \/ FetchPending
    \/ TakeEntry
    \/ \E status \in PostOutcomes : PostCallback(status)
    \/ BackoffThenRetry
    \/ MarkSent

DispatchSpec == DispatchInit /\ [][DispatchNext]_vars

\* the loop is one task the runtime keeps running: each await in its body
\* completes (a POST within its timeout, a sleep, the lock when it is free)
DispatchLiveSpec ==
    /\ DispatchSpec
    /\ WF_vars(TakeEntry)
    /\ WF_vars(\E status \in PostOutcomes : PostCallback(status))
    /\ WF_vars(BackoffThenRetry)
    /\ WF_vars(MarkSent)

----------------------------------------------------------------------------
(* VersionSpec: the fetch_and_ingest_* functions of one refresh and the     *)
(* dataset_version table                                                    *)

\* one source of each shape of fetch_and_ingest_*: a payload whose digest is
\* recorded (EU), a payload recorded without digest (CANADA), subjects
\* fetched without payload (PEP_EU_PARLIAMENT), no version recorded (PEP_AT)
IngestSources == <<"EU", "CANADA", "PEP_EU_PARLIAMENT", "PEP_AT">>

\* the function holds the bytes it fetched (xml_bytes)
HasPayload(source) == source \in {"EU", "CANADA"}

\* the function passes Some(&file_hash) to record_dataset_version
PassesFileHash(source) == source = "EU"

\* the function calls record_dataset_version
RecordsVersion(source) == source # "PEP_AT"

\* the bytes a source serves
PayloadOf(source) == <<"bytes of", source>>

\* compute_sha256(data): a digest of the bytes
compute_sha256(data) == <<"digest", data>>

\* the subjects a source yields
YieldedSubjects(source) ==
    [ k \in 1..2 |->
        [source_ref |-> IF k = 1 THEN "a" ELSE "b", kind |-> "person",
         primary_name |-> "maria", aliases |-> << >>,
         date_of_birth_year |-> Some(1937), country |-> Some("IQ")] ]

\* INSERT INTO dataset_version (source, record_count, file_hash); fetched_at
\* takes its default
record_dataset_version(versions, source, record_count, file_hash, at) ==
    Append(versions, [source |-> source, fetched_at |-> at,
                      record_count |-> record_count, file_hash |-> file_hash])

\* what can happen in one fetch_and_ingest_*: the fetch or the parse fails,
\* no subject is parsed, a statement of upsert_subjects fails, the INSERT of
\* record_dataset_version fails, or nothing fails
IngestOutcomes(source) ==
    { [step |-> s, fault |-> <<0, 0>>] : s \in {"ok", "fetch", "empty", "version"} }
      \cup ( IF HasPayload(source)
             THEN { [step |-> "parse", fault |-> <<0, 0>>] } ELSE {} )
      \cup { [step |-> "store", fault |-> <<i, k>>] :
               i \in 1..Len(YieldedSubjects(source)), k \in 1..3 }

\* fetch_and_ingest_*: [ok, db, versions, count]
fetch_and_ingest(db, versions, source, outcome, at) ==
    LET stored == upsert_subjects(db, YieldedSubjects(source), source, at,
                                  outcome.fault)
        file_hash == IF PassesFileHash(source)
                     THEN Some(compute_sha256(PayloadOf(source))) ELSE None
    IN  CASE outcome.step \in {"fetch", "parse"} ->
               [ok |-> FALSE, db |-> db, versions |-> versions, count |-> 0]
          [] outcome.step = "empty" ->
               [ok |-> TRUE, db |-> db, versions |-> versions, count |-> 0]
          [] outcome.step = "store" ->
               [ok |-> FALSE, db |-> stored.db, versions |-> versions,
                count |-> 0]
          [] outcome.step = "version" /\ RecordsVersion(source) ->
               [ok |-> FALSE, db |-> stored.db, versions |-> versions,
                count |-> 0]
          [] OTHER ->
               [ok |-> TRUE, db |-> stored.db,
                versions |-> IF RecordsVersion(source)
                             THEN record_dataset_version(versions, source,
                                      stored.count, file_hash, at)
                             ELSE versions,
                count |-> stored.count]

\* the tables an earlier refresh left, in which nothing failed
RECURSIVE EarlierRun(_, _)
EarlierRun(k, acc) ==
    IF k > Len(IngestSources) THEN acc
    ELSE EarlierRun(k + 1,
             fetch_and_ingest(acc.db, acc.versions, IngestSources[k],
                              [step |-> "ok", fault |-> <<0, 0>>], 0))

VersionInit ==
    /\ dv_pc = 1
    /\ \E start \in { [db |-> EmptyDb, versions |-> << >>],
                      EarlierRun(1, [db |-> EmptyDb, versions |-> << >>]) } :
          /\ dv_db = start.db
          /\ dv_versions = start.versions
    /\ BaseIdle /\ HashIdle /\ UpsertIdle /\ BatchIdle /\ ParseIdle /\ RetryIdle
    /\ RefreshIdle /\ RetrievalIdle /\ DispatchIdle

\* match fetch_and_ingest_X(&conn).await in main: Ok and Err are logged and
\* main goes on to the next source
IngestSource(outcome) ==
    /\ dv_pc <= Len(IngestSources)
    /\ outcome \in IngestOutcomes(IngestSources[dv_pc])
    /\ LET r == fetch_and_ingest(dv_db, dv_versions, IngestSources[dv_pc],
                                 outcome, 1)
       IN  /\ dv_db' = r.db
           /\ dv_versions' = r.versions
    /\ dv_pc' = dv_pc + 1
    /\ UNCHANGED <<baseVars, hashVars, upsertVars, batchVars, parseVars,
                   retryVars, refreshVars, retrievalVars, dispatchVars>>

VersionNext ==
    \E outcome \in UNION { IngestOutcomes(IngestSources[k]) :
                             k \in DOMAIN IngestSources } : IngestSource(outcome)

VersionSpec == VersionInit /\ [][VersionNext]_vars

----------------------------------------------------------------------------
(* Claims *)

C2_AtLeastOnce ==
    \A i \in 1..MaxResultRows :
        ( /\ i \in DOMAIN monitoring_result
          /\ monitoring_result[i].has_changes
          /\ ~monitoring_result[i].notified
          /\ \E s \in monitored_subject :
               /\ s.id = monitoring_result[i].subject_id
               /\ IsSome(s.callback_url) )
        ~> ( /\ i \in DOMAIN monitoring_result
             /\ monitoring_result[i].notified
             /\ i \in delivered )

\* C3: a row that is marked notified has had a callback POST answered 2xx,
\* and no POST is made for a row that is already marked notified.
C3_NotifiedAfter2xx ==
    /\ [](\A i \in DOMAIN monitoring_result :
            monitoring_result[i].notified => i \in delivered)
    /\ [][ \A status \in {"2xx", "5xx"} :
             SendCallback(status) =>
               ~monitoring_result[Head(notifications).result_id].notified ]_vars

\* a row has been answered 2xx and marked, and its sweep is over
C3_Witness ==
    \E i \in DOMAIN monitoring_result :
        /\ monitoring_result[i].notified
        /\ i \in delivered
        /\ dpc = "tick"

\* C4: a POST /v1/monitoring whose insert succeeds returns its response, and
\* then exactly one result row has been appended for the new subscription,
\* with has_changes = false, and the subscription's last_result_hash is the
\* hash of the initial screening.
C4_AddRecordsInitial ==
    [][ \A req \in AddRequests :
          ( /\ AddMonitoring(req)
            /\ next_subject_id' # next_subject_id ) =>
              /\ IsSome(resp') /\ Unwrap(resp').handler = "add_monitoring"
              /\ lock' = None
              /\ Len(monitoring_result') = Len(monitoring_result) + 1
              /\ LET r == monitoring_result'[Len(monitoring_result')]
                 IN  /\ r.subject_id = next_subject_id
                     /\ ~r.has_changes
                     /\ \E s \in monitored_subject' :
                          /\ s.id = next_subject_id
                          /\ s.last_result_hash = Some(r.result_hash) ]_vars

\* C5: removing a pair that has a row leaves that row in the table with
\* active cleared and nothing else changed, out of the tenant's listing and
\* out of the re-scan's set, answers 200 and keeps every result row; removing
\* a pair without a row answers 404 and changes no table.  No step ever
\* drops or rewrites a recorded result row, its notified flag aside.
C5_SoftDelete ==
    [][ /\ \A reference_id \in ReferenceIds :
             RemoveMonitoring(reference_id) =>
               LET had == ReplacedRows(monitored_subject, DefaultTenant,
                                       reference_id)
               IN  /\ monitoring_result' = monitoring_result
                   /\ IF had # {}
                      THEN /\ monitored_subject' =
                                (monitored_subject \ had) \cup
                                  { [s EXCEPT !.active = FALSE] : s \in had }
                           /\ \A s \in get_monitored_subjects(
                                          monitored_subject', DefaultTenant) :
                                s.reference_id # reference_id
                           /\ \A k \in DOMAIN get_all_active_subjects(
                                                  monitored_subject') :
                                get_all_active_subjects(monitored_subject')[k]
                                    .reference_id # reference_id
                           /\ resp' = Some([handler |-> "remove_monitoring",
                                            status |-> 200])
                      ELSE /\ monitored_subject' = monitored_subject
                           /\ resp' = Some([handler |-> "remove_monitoring",
                                            status |-> 404])
        /\ Len(monitoring_result') >= Len(monitoring_result)
        /\ \A i \in DOMAIN monitoring_result :
             [monitoring_result'[i] EXCEPT !.notified = FALSE]
               = [monitoring_result[i] EXCEPT !.notified = FALSE] ]_vars

\* a subscription that has a result row has been removed
C5_Witness ==
    /\ resp = Some([handler |-> "remove_monitoring", status |-> 200])
    /\ \E s \in monitored_subject :
         /\ ~s.active
         /\ \E i \in DOMAIN monitoring_result :
              monitoring_result[i].subject_id = s.id

\* C6: a candidate with name_similarity >= 0.99 and country_match = 1.0 ends
\* with a final score >= 0.95 and risk level Hit, whatever the DOB input and
\* the DOB component are.
C6_PerfectHit ==
    sc_out # << >> =>
        LET h == sc_out[1]
        IN  (h.name_similarity >= Pct(99) /\ h.country_match = Scale)
                => (h.score >= Pct(95) /\ RiskLevel(h.score) = "Hit")

\* C6 witness: a perfect name + country match with a supplied, mismatching DOB
\* whose weighted score was below 0.95 has been scored.
C6_Witness ==
    /\ sc_out # << >>
    /\ sc_out[1].name_similarity >= Pct(99)
    /\ sc_out[1].country_match = Scale
    /\ IsSome(sc_in[1].dob_year)
    /\ sc_out[1].dob_similarity < Scale
    /\ WeightedScore(sc_out[1].name_similarity, sc_out[1].country_match,
                     sc_out[1].dob_similarity) < Pct(95)
    /\ sc_out[1].score >= Pct(95)

\* C7: when the request supplies a country and the candidate's country_match
\* is 0, the final score is <= 0.89 and the risk level is not Hit, for every
\* name and DOB component.
C7_WrongCountryCap ==
    sc_out # << >> =>
        LET h == sc_out[1]
        IN  (IsSome(sc_in[1].country) /\ h.country_match = 0)
                => (h.score <= Pct(89) /\ RiskLevel(h.score) # "Hit")

\* C7 witness: a supplied country that does not match, with a perfect name and
\* an exact DOB, has been scored.
C7_Witness ==
    /\ sc_out # << >>
    /\ IsSome(sc_in[1].country)
    /\ sc_out[1].country_match = 0
    /\ sc_out[1].name_similarity = Scale
    /\ sc_out[1].dob_similarity = Scale

\* C8: the three components and the final score of every scored candidate lie
\* in [0, 1].
C8_UnitInterval ==
    nm_out # << >> =>
        LET h == nm_out[1]
        IN  /\ 0 <= h.name_similarity /\ h.name_similarity <= Scale
            /\ 0 <= h.country_match   /\ h.country_match <= Scale
            /\ 0 <= h.dob_similarity  /\ h.dob_similarity <= Scale
            /\ 0 <= h.score           /\ h.score <= Scale

\* C8 witness: a candidate whose parts score plus containment bonus exceeds 1
\* has been scored, with country and DOB both matching.
C8_Witness ==
    /\ nm_out # << >>
    /\ NameSimilarityUnclamped(nm_in[1].input_parts, nm_in[1].cand.primary_name) > Scale
    /\ nm_out[1].country_match = Scale
    /\ nm_out[1].dob_similarity = Scale

\* C9: compute_parts_match_score gives the same score for the input tokens
\* and for every permutation of them.
C9_OrderInsensitive ==
    pm_out # << >> => pm_out[1].score = pm_out[1].score_permuted
\* C10: the hit list search_and_score returns is ordered by score descending
\* and holds at most max_results hits.
C10_SortedTruncated ==
    se_out # << >> =>
        LET hits == se_out[1]
        IN  /\ \A i \in 1..(Len(hits) - 1) : hits[i].score >= hits[i + 1].score
            /\ Len(hits) <= se_in[1].max_results

\* C10 witness: a list was returned for candidates that came in ascending
\* score order and outnumbered max_results.
C10_Witness ==
    /\ se_out # << >>
    /\ Len(se_in[1].candidates) > se_in[1].max_results
    /\ Len(se_out[1]) = se_in[1].max_results
    /\ LET q == se_in[1]
           sc(i) == ScoreCandidate(q.input_parts, q.country, q.dob_year,
                                   q.candidates[i]).score
       IN  \A i \in 1..(Len(q.candidates) - 1) : sc(i) < sc(i + 1)


C12_UpsertIdempotent ==
    (Len(up_out) = 2 /\ up_out[1].ok /\ up_out[2].ok) =>
        LET rows(db) == { [id |-> r.id, kind |-> r.kind,
                           primary_name |-> r.primary_name,
                           date_of_birth_year |-> r.date_of_birth_year,
                           country |-> r.country, source |-> r.source,
                           source_ref |-> r.source_ref] : r \in db.subject }
            aliases(db) == { <<a.subject_id, a.name, a.alias_type>> :
                               a \in db.alias }
        IN  /\ rows(up_out[2].after) = rows(up_out[1].after)
            /\ aliases(up_out[2].after) = aliases(up_out[1].after)
            /\ up_out[2].count = up_out[1].count

\* two subjects with aliases were inserted by the first call and updated by
\* the second one, which changed the stored timestamps
C12_Witness ==
    /\ Len(up_out) = 2 /\ up_out[1].ok /\ up_out[2].ok
    /\ Len(up_in[1].subjects) = 2
    /\ up_out[1].before.subject = {}
    /\ Cardinality(up_out[2].after.subject) = 2
    /\ Cardinality(up_out[2].after.alias) >= 2
    /\ up_out[2].after.subject # up_out[1].after.subject

\* C13: a failing statement while one subject is written leaves that
\* subject's row and aliases both updated or both untouched, and the subjects
\* after it in the list are still upserted.
C13_FailureIsolated ==
    \A n \in 1..Len(up_out) :
        ~up_out[n].ok =>
            LET run == up_out[n]
                ss  == up_in[1].subjects
                i   == run.fault[1]
                sid(j) == SubjectId(up_in[1].source, ss[j].source_ref)
                row(db, id) == { r \in db.subject : r.id = id }
                als(db, id) == { <<a.name, a.alias_type>> :
                                   a \in { x \in db.alias : x.subject_id = id } }
                wanted(j) == { <<ss[j].aliases[x].name,
                                 ss[j].aliases[x].alias_type>> :
                                 x \in 1..Len(ss[j].aliases) }
                written(j) ==
                    /\ \E r \in row(run.after, sid(j)) :
                          /\ r.primary_name = ss[j].primary_name
                          /\ r.updated_at = n
                    /\ als(run.after, sid(j)) = wanted(j)
                untouched(j) ==
                    /\ row(run.after, sid(j)) = row(run.before, sid(j))
                    /\ als(run.after, sid(j)) = als(run.before, sid(j))
            IN  /\ written(i) \/ untouched(i)
                /\ \A j \in (i + 1)..Len(ss) : written(j)

\* C14: within a refresh run the subject tables are written only while
\* sources remain to be ingested, the index directory only once every source
\* has been dealt with, and result rows (those with has_changes = true among
\* them) are appended only by the re-scan, on the committed index of the
\* final tables, after which neither the tables nor the index change.
C14_RefreshOrder ==
    [][ /\ rf_db' # rf_db => Len(rf_log) < Len(RefreshSources)
        /\ rf_index' # rf_index =>
              Len(rf_log) = Len(RefreshSources) /\ rf_res = << >>
        /\ rf_res' # rf_res =>
              /\ Len(rf_log) = Len(RefreshSources)
              /\ rf_index = Some(build_from_db(rf_db))
              /\ rf_db' = rf_db /\ rf_index' = rf_index
        /\ rf_res # << >> => rf_db' = rf_db /\ rf_index' = rf_index ]_vars

\* the run is over and its re-scan created a row with has_changes = true on
\* an index holding subjects of all three sources
C14_Witness ==
    /\ rf_pc = "done"
    /\ \E i \in DOMAIN rf_res : rf_res[i].has_changes /\ rf_res[i].hit_count > 0
    /\ \A k \in DOMAIN rf_log : rf_log[k].ok
    /\ rf_index = Some(Corpus)

\* C15: a screening query made while a refresh runs reads the index of before
\* the refresh or the index the refresh commits, never a missing or empty one.
C15_ReadsWholeIndex ==
    \A read \in rf_reads :
        \/ read.index = rf_pre.index
        \/ read.index = Some(build_from_db(rf_db))

\* C16: at the end of a run in which sources failed, every source has been
\* dealt with, the index holds the final tables and the re-scan has run; and
\* the subjects stored for a failed source before the run are as they were.
C16_FailedSourceSkipped ==
    /\ rf_pc = "done" =>
          /\ Len(rf_log) = Len(RefreshSources)
          /\ rf_index = Some(build_from_db(rf_db))
          /\ rf_subs # {} => rf_res # << >>
    /\ \A k \in DOMAIN rf_log :
          ~rf_log[k].ok =>
              LET ids == { r.id : r \in { x \in rf_pre.db.subject :
                                            x.source = rf_log[k].source } }
                  content(db) ==
                      [ row |-> { [r EXCEPT !.updated_at = 0] :
                                    r \in { x \in db.subject : x.id \in ids } },
                        als |-> { <<a.subject_id, a.name, a.alias_type>> :
                                    a \in { x \in db.alias :
                                              x.subject_id \in ids } } ]
              IN  content(rf_db) = content(rf_pre.db)

\* C17: the tokens of fewer than 3 characters add nothing to the candidates,
\* and a query made of such tokens only, or of none, has no candidates and no
\* hits, whatever the index holds.
C17_ShortTokensDropped ==
    cn_out # << >> =>
        LET q == cn_in[1]
            long == SelectSeq(q.words, LAMBDA w : Len(w) >= 3)
        IN  /\ cn_out[1].candidates =
                  search_candidates(Some(q.docs), long, q.limit * 10)
            /\ long = << >> =>
                  cn_out[1].candidates = Some(<< >>) /\ cn_out[1].hits = << >>

\* C18: the results request for a known job answers 200 with the hit lists
\* only when the job is Completed, and 400 otherwise; the body has one entry
\* per submitted record, in the order of submission.
C18_ResultsWhenCompleted ==
    [][ (/\ bt_resp' # bt_resp
         /\ bt_resp'[1].handler = "get_batch_results"
         /\ \E j \in DOMAIN bt_jobs : bt_jobs[j].id = bt_resp'[1].job_id) =>
            LET r == bt_resp'[1]
                j == CHOOSE k \in DOMAIN bt_jobs : bt_jobs[k].id = r.job_id
                records == bt_tasks[j].records
            IN  IF bt_jobs[j].status = "Completed"
                THEN /\ r.code = 200
                     /\ Len(r.body) = Len(records)
                     /\ \A i \in DOMAIN records :
                          /\ r.body[i].reference_id = records[i].reference_id
                          /\ r.body[i].name = records[i].name
                          /\ r.body[i].hits =
                               perform_screening(TRUE, Some(Corpus),
                                   records[i].name, records[i].country,
                                   ParseDobYear(records[i].date_of_birth))
                ELSE r.code = 400 /\ r.body = << >> ]_vars

\* the results of a completed job of two different records have been
\* returned while another job is still processing
C18_Witness ==
    /\ bt_resp # << >>
    /\ bt_resp[1].handler = "get_batch_results" /\ bt_resp[1].code = 200
    /\ Len(bt_resp[1].body) = MaxRecords
    /\ bt_resp[1].body[1].name # bt_resp[1].body[2].name
    /\ \E j \in DOMAIN bt_jobs : bt_jobs[j].status = "Processing"

\* C19: whatever entry of a roster file is malformed, the parser returns Ok
\* and its list holds every well-formed entry that comes after a malformed
\* one.
C19_TolerantParsers ==
    pr_out # << >> =>
        LET es == pr_in[1].entries
            out == pr_out[1]
        IN  /\ out.ok
            /\ \A k \in DOMAIN es :
                 (/\ es[k].fault = "none"
                  /\ \E j \in 1..(k - 1) : es[j].fault # "none") =>
                     \E i \in DOMAIN out.subjects :
                        out.subjects[i].primary_name = es[k].name

\* C20: in the fetch of any source, a request that fails without a response
\* is followed, unless it was attempt number max_retries, by a wait of
\* initial_delay * 2^i and by attempt i + 1; attempt number max_retries is
\* followed by no wait and its error is returned; a success is returned
\* without further attempts.
C20_RetriedWithBackoff ==
    rt_out # << >> =>
        LET log == rt_run.log
        IN  \A k \in DOMAIN log :
              /\ log[k].attempt <= MaxRetries
              /\ (log[k].outcome = "err" /\ log[k].attempt < MaxRetries) =>
                    /\ k < Len(log)
                    /\ log[k + 1].attempt = log[k].attempt + 1
                    /\ log[k + 1].phase = log[k].phase
                    /\ log[k].wait = InitialDelayMs(log[k].phase)
                                       * (2 ^ log[k].attempt)
              /\ (log[k].outcome = "err" /\ log[k].attempt = MaxRetries) =>
                    /\ k = Len(log) /\ log[k].wait = 0
                    /\ rt_out[1] = [ok |-> FALSE, error |-> log[k]]
              /\ log[k].outcome = "2xx" =>
                    /\ log[k].wait = 0
                    /\ k < Len(log) => log[k + 1].phase # log[k].phase

\* C21: when the refresh ends on the index the subscriptions were last
\* screened on (the corpus is the one of before the run), no result row of its
\* re-scan has has_changes = true.
C21_SameCorpusNoChanges ==
    (rf_pc = "done" /\ rf_pre.index # None /\ rf_index = rf_pre.index) =>
        \A i \in DOMAIN rf_res : ~rf_res[i].has_changes

\* C22: within one sweep a result row is POSTed at most 3 times, in attempts
\* numbered from 1; no attempt follows a 2xx answer; attempt i + 1 follows a
\* failed attempt i after a sleep of 2^i seconds; and every row of the sweep
\* whose subject has a callback_url is POSTed in that sweep, whatever the
\* rows before it were answered.
C22_SweepRetries ==
    /\ [](\A k \in DOMAIN cb_posts :
            LET p == cb_posts[k]
                earlier == { j \in 1..(k - 1) :
                               /\ cb_posts[j].sweep = p.sweep
                               /\ cb_posts[j].result_id = p.result_id }
            IN  /\ p.attempt \in 1..3
                /\ Cardinality(earlier) = p.attempt - 1
                /\ \A j \in earlier : ~IsSuccess(cb_posts[j].status)
                /\ p.attempt > 1 =>
                      /\ k - 1 \in earlier
                      /\ cb_posts[k - 1].attempt = p.attempt - 1
                      /\ cb_posts[k - 1].wait = 2 ^ (p.attempt - 1))
    /\ \A sw \in 1..MaxSweeps : \A r \in 1..MaxRecorded :
          ( /\ cb_loop.sweep = sw
            /\ \E i \in DOMAIN cb_loop.queue :
                  /\ cb_loop.queue[i].result_id = r
                  /\ IsSome(cb_loop.queue[i].subject.callback_url) )
          ~> (\E k \in DOMAIN cb_posts :
                  cb_posts[k].sweep = sw /\ cb_posts[k].result_id = r)

\* a row was refused three times, after sleeps of 2 and 4 seconds, and the
\* next row of the same sweep was POSTed
C22_Witness ==
    \E k \in DOMAIN cb_posts :
        /\ k >= 3 /\ k < Len(cb_posts)
        /\ cb_posts[k].attempt = 3 /\ ~IsSuccess(cb_posts[k].status)
        /\ cb_posts[k - 2].wait = 2 /\ cb_posts[k - 1].wait = 4
        /\ cb_posts[k].wait = 0
        /\ cb_posts[k + 1].sweep = cb_posts[k].sweep
        /\ cb_posts[k + 1].result_id # cb_posts[k].result_id

\* C23: every POST made for a result row carries the reference_id of the
\* row's subject and, as screened_at, the time at which the row was recorded;
\* so any two POSTs for one row carry the same pair.
C23_StableDedupeKey ==
    \A k \in DOMAIN cb_posts :
        LET p == cb_posts[k]
        IN  /\ \E s \in cb_subs :
                  /\ s.id = cb_res[p.result_id].subject_id
                  /\ s.reference_id = p.payload.reference_id
            /\ p.payload.screened_at = cb_res[p.result_id].screened_at
            /\ \A j \in DOMAIN cb_posts :
                  cb_posts[j].result_id = p.result_id =>
                      cb_posts[j].payload.screened_at = p.payload.screened_at

\* C24: once a source has been dealt with in this refresh (time 1), if the
\* refresh wrote at least one of its subject rows, the dataset_version table
\* holds exactly one row of this refresh for the source, whose record_count is
\* the number of subject rows written and whose file_hash is the digest of
\* the payload when the source has one; and the rows of the earlier refresh
\* are as they were.
C24_OneVersionPerSource ==
    /\ \A k \in 1..(dv_pc - 1) :
          LET source == IngestSources[k]
              written == { r \in dv_db.subject :
                             r.source = source /\ r.updated_at = 1 }
              rows == { i \in DOMAIN dv_versions :
                          /\ dv_versions[i].source = source
                          /\ dv_versions[i].fetched_at = 1 }
          IN  written # {} =>
                /\ Cardinality(rows) = 1
                /\ \A i \in rows :
                      /\ dv_versions[i].record_count = Cardinality(written)
                      /\ HasPayload(source) =>
                            dv_versions[i].file_hash =
                                Some(compute_sha256(PayloadOf(source)))
    /\ \A i \in DOMAIN dv_versions :
          dv_versions[i].fetched_at = 0 =>
              /\ i <= Len(IngestSources) - 1
              /\ dv_versions[i] =
                    EarlierRun(1, [db |-> EmptyDb, versions |-> << >>]).versions[i]

\* C25: the UK fetch requests the URLs of UK_SANCTIONS_URLS in declared
\* order; a request answered with a readable body of more than 1000 bytes
\* ends the fetch with that body; any other answer is followed by the request
\* of the next URL of the list; the landing page is requested only after
\* every URL of the list was requested and failed; and the fetch fails only
\* after a request of the scrape failed.
C25_UkFallbackChain ==
    (rt_in # << >> /\ rt_in[1].source = "UK") =>
        LET log == rt_run.log
            last == Len(UK_SANCTIONS_URLS) - 1
        IN  /\ \A k \in DOMAIN log :
                  /\ (log[k].phase = "uk" /\ k = 1) => log[k].attempt = 0
                  /\ (log[k].phase = "uk" /\ log[k].outcome = "2xx") =>
                        rt_out = << [ok |-> TRUE, error |-> log[k]] >>
                  /\ ( /\ log[k].phase = "uk" /\ log[k].outcome # "2xx"
                       /\ log[k].attempt < last /\ k < Len(log) ) =>
                        /\ log[k + 1].phase = "uk"
                        /\ log[k + 1].attempt = log[k].attempt + 1
                  /\ ( /\ log[k].phase = "uk" /\ log[k].outcome # "2xx"
                       /\ log[k].attempt < last ) => rt_out = << >> \/ k < Len(log)
                  /\ log[k].phase = "page" =>
                        \A u \in 0..last : \E j \in 1..(k - 1) :
                            /\ log[j].phase = "uk" /\ log[j].attempt = u
                            /\ log[j].outcome # "2xx"
            /\ (rt_out # << >> /\ ~rt_out[1].ok) =>
                  /\ rt_out[1].error.phase \in {"page", "link"}
                  /\ rt_out[1].error.outcome # "2xx"

\* C26: every subject a parser emits has a non-empty primary_name and a
\* date_of_birth_year that is absent or lies in [1900, 2100), whatever year
\* or birthdate text the file supplies.
C26_NamedAndYearInRange ==
    pr_out # << >> =>
        \A i \in DOMAIN pr_out[1].subjects :
            LET subject == pr_out[1].subjects[i]
            IN  /\ subject.primary_name # ""
                /\ \/ subject.date_of_birth_year = None
                   \/ /\ 1900 <= Unwrap(subject.date_of_birth_year)
                      /\ Unwrap(subject.date_of_birth_year) < 2100

\* C27: with the query's country and year and the candidate fixed, a name
\* similarity at least as high never ends with a lower final score.
C27_MonotoneInName ==
    sc_out # << >> =>
        LET q == sc_in[1]
        IN  \A higher \in NameGrid :
                higher >= q.name_similarity =>
                    ScoreWith(higher, q.country, q.dob_year, q.cand).score
                        >= sc_out[1].score

\* C28: of every batch job, processed_records never exceeds total_records
\* and never decreases, the status leaves Processing only for a final status
\* and never changes afterwards, a Completed job has processed_records =
\* total_records and as many stored results, and only a step of the job's
\* own worker task changes the job.
C28_BatchJobProgress ==
    [][ /\ \A j \in DOMAIN bt_jobs' :
             LET job == bt_jobs'[j]
             IN  /\ job.processed_records <= job.total_records
                 /\ job.status \in {"Processing", "Completed", "Failed"}
                 /\ job.status = "Completed" =>
                       /\ job.processed_records = job.total_records
                       /\ Len(job.results) = job.total_records
        /\ \A j \in DOMAIN bt_jobs :
             /\ j \in DOMAIN bt_jobs'
             /\ bt_jobs'[j].id = bt_jobs[j].id
             /\ bt_jobs'[j].total_records = bt_jobs[j].total_records
             /\ bt_jobs'[j].processed_records >= bt_jobs[j].processed_records
             /\ bt_jobs[j].status # "Processing" =>
                   bt_jobs'[j].status = bt_jobs[j].status
             /\ bt_jobs'[j] # bt_jobs[j] =>
                   /\ bt_tasks'[j] # bt_tasks[j]
                   /\ \A k \in DOMAIN bt_jobs \ {j} : bt_jobs'[k] = bt_jobs[k]
                   /\ \A k \in DOMAIN bt_tasks \ {j} :
                         bt_tasks'[k] = bt_tasks[k] ]_vars

\* one job is Completed with all its records processed while the worker of
\* another job is half way through its records
C28_Witness ==
    /\ \E j \in DOMAIN bt_jobs :
          /\ bt_jobs[j].status = "Completed"
          /\ bt_jobs[j].total_records = MaxRecords
          /\ Len(bt_jobs[j].results) = MaxRecords
    /\ \E j \in DOMAIN bt_jobs :
          /\ bt_jobs[j].status = "Processing"
          /\ bt_jobs[j].total_records = MaxRecords
          /\ bt_jobs[j].processed_records = 1

\* C29: there is one subscription row per (tenant_id, reference_id), and an
\* add for a pair that already exists keeps the result rows recorded for
\* that pair attached to its row: every result row is the result of a
\* subscription that is in the table, so that the sweep's join finds it.
C29_ReAddKeepsResults ==
    /\ \A s, t \in monitored_subject :
          (s.tenant_id = t.tenant_id /\ s.reference_id = t.reference_id)
              => s = t
    /\ \A i \in DOMAIN monitoring_result :
          \E s \in monitored_subject : s.id = monitoring_result[i].subject_id

\* C30: every entry a sweep of the dispatcher takes up for a POST is a
\* result row with has_changes = true and notified = false of a subscription
\* that has a callback_url and is active: nothing is sent for a subscription
\* that was soft-deleted before the sweep.
C30_OnlyActiveNotified ==
    [][ (dpc = "tick" /\ dpc' = "send") =>
          \A k \in DOMAIN notifications' :
             LET entry == notifications'[k]
                 row == monitoring_result[entry.result_id]
             IN  /\ row.has_changes /\ ~row.notified
                 /\ \E s \in monitored_subject :
                       /\ s.id = row.subject_id
                       /\ s.reference_id = entry.reference_id
                       /\ IsSome(s.callback_url)
                       /\ s.active ]_vars

============================================================================
